---- MODULE Spec2Model ----
(***************************************************************************)
(* A model of go-proxyproto: the PROXY protocol (v1 text, v2 binary)       *)
(* header codec (Read, Header.WriteTo) and the connection wrapper (Conn)   *)
(* that resolves the header lazily, once.                                  *)
(*                                                                         *)
(* Bytes are integers 0..255, byte strings are sequences of bytes, text is *)
(* the sequence of its ASCII codes.  A net.IP is a byte sequence of length *)
(* 0 (nil), 4 or 16.  An error is the name of the Go error value, "nil"    *)
(* for no error.                                                           *)
(***************************************************************************)
EXTENDS Integers, Sequences, FiniteSets, TLC

\* ------------------------------------------------------------------------
\* Byte-string helpers
\* ------------------------------------------------------------------------

Drop(s, n) == IF n >= Len(s) THEN <<>> ELSE SubSeq(s, n + 1, Len(s))

Take(s, n) == IF n >= Len(s) THEN s ELSE SubSeq(s, 1, n)

HasPrefix(s, p) == Len(s) >= Len(p) /\ SubSeq(s, 1, Len(p)) = p

\* strings.HasSuffix looking at the last byte only
HasSuffixLastByte(s, p) == Len(s) >= 1 /\ s[Len(s)] = p[Len(p)]

HasSuffix(s, p) == Len(s) >= Len(p) /\ SubSeq(s, Len(s) - Len(p) + 1, Len(s)) = p

\* n bytes of value b
Fill(n, b) == <<>> \o [i \in 1..n |-> b]

\* binary.BigEndian.PutUint16 and its inverse
PutUint16(v) == <<v \div 256, v % 256>>

Uint16(b) == b[1] * 256 + b[2]

\* ------------------------------------------------------------------------
\* Protocol constants (protocol.go)
\* ------------------------------------------------------------------------

SIGV1 == <<80, 82, 79, 88, 89>>

SIGV2 == <<13, 10, 13, 10, 0, 13, 10, 81, 85, 73, 84, 10>>

\* LOCAL in the source (a reserved word here)
CmdLOCAL == 32

PROXY == 33

CRLF == <<13, 10>>

UNSPEC == 0

TCPv4 == 17

UDPv4 == 18

TCPv6 == 33

UDPv6 == 34

v1Sep == <<32>>

v4AddrLen == 12

v6AddrLen == 36

\* bufio.NewReader gives the reader a buffer of bufio's default size
defaultBufSize == 4096

\* isSupportedCommand accepting PROXY alone
isSupportedCommandProxyOnly(command) == command = PROXY

\* isSupportedCommand looking at the version nibble only
isSupportedCommandAnyVersion2(command) == (command \div 16) = 2

isSupportedCommand(command) == command \in {CmdLOCAL, PROXY}

\* 0x20 == pvc&0xF0 && 0x00 == pvc&0x0F
\* IsLocal that never recognises the command
IsLocalNever(pvc) == pvc = CmdLOCAL /\ pvc = PROXY

IsLocal(pvc) == (pvc \div 16) = 2 /\ (pvc % 16) = 0

IsProxy(pvc) == (pvc \div 16) = 2 /\ (pvc % 16) = 1

\* isSupportedTransportProtocol looking at the family nibble only
isSupportedTransportProtocolAnyIP(proto) == (proto \div 16) \in {1, 2}

isSupportedTransportProtocol(proto) == proto \in {TCPv4, UDPv4, TCPv6, UDPv6}

IsIPv4(ap) == (ap \div 16) = 1

IsIPv6(ap) == (ap \div 16) = 2

IsStream(ap) == (ap % 16) = 1

IsDatagram(ap) == (ap % 16) = 2

\* validateLeastAddressLen with the IPv4 minimum for every family
validateLeastAddressLenV4Only(ap, len) == len >= v4AddrLen

validateLeastAddressLen(ap, len) ==
    CASE IsIPv4(ap) -> len >= v4AddrLen
      [] IsIPv6(ap) -> len >= v6AddrLen
      [] OTHER -> FALSE

\* The zero Header with the given version, as &Header{Version: v} builds it
NewHeader(v) ==
    [Version |-> v, SrcAddr |-> <<>>, DstAddr |-> <<>>, SrcPort |-> 0, DstPort |-> 0,
     Command |-> 0, TransportProtocol |-> UNSPEC]

\* A nil *Header
NilHeader == [nil |-> TRUE]

\* ------------------------------------------------------------------------
\* Text conversions of the Go library, as the codec calls them
\* ------------------------------------------------------------------------

IsDigit(c) == c >= 48 /\ c <= 57

\* Index of the first occurrence of byte c in s, 0 when there is none
IndexByte(s, c) ==
    LET hits == {i \in 1..Len(s) : s[i] = c}
    IN  IF hits = {} THEN 0 ELSE CHOOSE i \in hits : \A j \in hits : i <= j

\* strings.Split(s, sep) for a one-byte separator
RECURSIVE Split(_, _)
Split(s, c) ==
    LET i == IndexByte(s, c)
    IN  IF i = 0 THEN <<s>> ELSE <<SubSeq(s, 1, i - 1)>> \o Split(Drop(s, i), c)

\* strconv.Itoa for n >= 0
RECURSIVE Itoa(_)
Itoa(n) == IF n < 10 THEN <<48 + n>> ELSE Itoa(n \div 10) \o <<48 + (n % 10)>>

\* Values at or above SatVal are all "too large" for every comparison the codec
\* makes (ports against 65535, octets against 255, groups against 0xFFFF), so
\* digit accumulation saturates there instead of growing without bound.
SatVal == 1000000

Sat(n) == IF n > SatVal THEN SatVal ELSE n

RECURSIVE DecVal(_, _)
DecVal(s, acc) == IF s = <<>> THEN acc ELSE DecVal(Tail(s), Sat(acc * 10 + (Head(s) - 48)))

RECURSIVE StripZeros(_)
StripZeros(s) == IF s # <<>> /\ Head(s) = 48 THEN StripZeros(Tail(s)) ELSE s

RECURSIVE LexLeq(_, _)
LexLeq(a, b) ==
    IF a = <<>> THEN TRUE
    ELSE IF Head(a) # Head(b) THEN Head(a) < Head(b)
    ELSE LexLeq(Tail(a), Tail(b))

\* "9223372036854775807", the largest int64
MaxInt64Digits == <<57,50,50,51,51,55,50,48,51,54,56,53,52,55,55,53,56,48,55>>

\* Whether the magnitude written by the digits fits an int64 of the given sign
FitsInt64(digits, neg) ==
    LET d == StripZeros(digits)
    IN  \/ Len(d) < 19
        \/ Len(d) = 19 /\ (LexLeq(d, MaxInt64Digits) \/ (neg /\ d = [MaxInt64Digits EXCEPT ![19] = 56]))

\* strconv.Atoi: an optional sign, then decimal digits only
Atoi(s) ==
    LET signed == s # <<>> /\ s[1] \in {43, 45}
        neg    == s # <<>> /\ s[1] = 45
        digits == IF signed THEN Tail(s) ELSE s
    IN  IF digits = <<>> \/ \E i \in 1..Len(digits) : ~IsDigit(digits[i])
        THEN [n |-> 0, err |-> "strconv.ErrSyntax"]
        ELSE IF ~FitsInt64(digits, neg)
        THEN [n |-> 0, err |-> "strconv.ErrRange"]
        ELSE [n |-> IF neg THEN 0 - DecVal(digits, 0) ELSE DecVal(digits, 0), err |-> "nil"]

\* net.IP.To4: the 4-byte form of an IPv4 address, <<>> (nil) otherwise
v4InV6Prefix == <<0, 0, 0, 0, 0, 0, 0, 0, 0, 0, 255, 255>>

To4(ip) ==
    IF Len(ip) = 4 THEN ip
    ELSE IF Len(ip) = 16 /\ SubSeq(ip, 1, 12) = v4InV6Prefix THEN SubSeq(ip, 13, 16)
    ELSE <<>>

\* net.IP.To16
To16(ip) ==
    IF Len(ip) = 4 THEN v4InV6Prefix \o ip
    ELSE IF Len(ip) = 16 THEN ip
    ELSE <<>>

\* net.IP.Equal: an IPv4 address and its IPv4-in-IPv6 form are the same address
IPEqual(a, b) == IF Len(a) \in {4, 16} /\ Len(b) \in {4, 16} THEN To16(a) = To16(b) ELSE a = b

HexDigit(d) == IF d < 10 THEN 48 + d ELSE 87 + d

\* appendHex: lower-case hex without leading zeros
RECURSIVE AppendHex(_)
AppendHex(n) == IF n < 16 THEN <<HexDigit(n)>> ELSE AppendHex(n \div 16) \o <<HexDigit(n % 16)>>

Groups(ip) == <<>> \o [i \in 1..8 |-> ip[2 * i - 1] * 256 + ip[2 * i]]

RECURSIVE ZeroRun(_, _)
ZeroRun(g, i) == IF i > 8 \/ g[i] # 0 THEN 0 ELSE 1 + ZeroRun(g, i + 1)

RECURSIVE V6Text(_, _, _, _)
V6Text(g, i, e0, e1) ==
    IF i > 8 THEN <<>>
    ELSE IF i = e0
    THEN <<58, 58>> \o (IF e1 > 8 THEN <<>> ELSE AppendHex(g[e1]) \o V6Text(g, e1 + 1, e0, e1))
    ELSE (IF i > 1 THEN <<58>> ELSE <<>>) \o AppendHex(g[i]) \o V6Text(g, i + 1, e0, e1)

\* net.IP.String: dotted decimal for an IPv4 address, else the IPv6 text with
\* the first longest run of two or more zero groups written as "::"
IPString(ip) ==
    IF Len(ip) = 0 THEN <<60, 110, 105, 108, 62>>
    ELSE IF To4(ip) # <<>>
    THEN LET p == To4(ip)
         IN  Itoa(p[1]) \o <<46>> \o Itoa(p[2]) \o <<46>> \o Itoa(p[3]) \o <<46>> \o Itoa(p[4])
    ELSE LET g    == Groups(ip)
             best == CHOOSE i \in 1..8 :
                        /\ \A j \in 1..8 : ZeroRun(g, j) <= ZeroRun(g, i)
                        /\ \A j \in 1..(i - 1) : ZeroRun(g, j) < ZeroRun(g, i)
             e0   == IF ZeroRun(g, best) >= 2 THEN best ELSE 0
         IN  V6Text(g, 1, e0, best + ZeroRun(g, best))

\* parseIPv4: exactly four decimal octets 0..255 separated by dots, without
\* leading zeros; the result is the 16-byte IPv4-in-IPv6 form
parseIPv4(s) ==
    LET f  == Split(s, 46)
        ok == /\ Len(f) = 4
              /\ \A k \in 1..4 :
                    /\ f[k] # <<>>
                    /\ \A i \in 1..Len(f[k]) : IsDigit(f[k][i])
                    /\ DecVal(f[k], 0) <= 255
                    /\ ~(Len(f[k]) > 1 /\ f[k][1] = 48)
    IN  IF ok THEN v4InV6Prefix \o <<DecVal(f[1], 0), DecVal(f[2], 0), DecVal(f[3], 0), DecVal(f[4], 0)>> ELSE <<>>

IsHex(c) == IsDigit(c) \/ (c >= 97 /\ c <= 102) \/ (c >= 65 /\ c <= 70)

HexVal(c) == IF IsDigit(c) THEN c - 48 ELSE IF c >= 97 THEN c - 87 ELSE c - 55

\* xtoi: the leading hex digits of s: their value n and their count c
RECURSIVE xtoi(_, _, _)
xtoi(s, n, c) ==
    IF s # <<>> /\ IsHex(Head(s))
    THEN xtoi(Tail(s), Sat(n * 16 + HexVal(Head(s))), c + 1)
    ELSE [n |-> n, c |-> c, ok |-> c > 0 /\ n < SatVal]

GroupsToIP(g) == <<>> \o [i \in 1..16 |-> IF i % 2 = 1 THEN g[(i + 1) \div 2] \div 256 ELSE g[i \div 2] % 256]

\* The end of parseIPv6: nothing may be left over, and an ellipsis stands for
\* the missing groups
v6Finish(s, acc, ell) ==
    IF s # <<>> THEN <<>>
    ELSE IF Len(acc) < 8
    THEN IF ell < 0 THEN <<>>
         ELSE GroupsToIP(SubSeq(acc, 1, ell) \o Fill(8 - Len(acc), 0) \o SubSeq(acc, ell + 1, Len(acc)))
    ELSE IF ell >= 0 THEN <<>> ELSE GroupsToIP(acc)

\* The loop of parseIPv6; acc holds the 16-bit groups read so far, ell the
\* position of the "::" (-1 when none was seen)
RECURSIVE v6Loop(_, _, _)
v6Loop(s, acc, ell) ==
    IF Len(acc) >= 8 THEN v6Finish(s, acc, ell)
    ELSE LET x == xtoi(s, 0, 0)
         IN  IF ~x.ok \/ x.n > 65535 THEN <<>>
             ELSE IF x.c < Len(s) /\ s[x.c + 1] = 46
             THEN IF (ell < 0 /\ Len(acc) # 6) \/ Len(acc) + 2 > 8 THEN <<>>
                  ELSE LET ip4 == parseIPv4(s)
                       IN  IF ip4 = <<>> THEN <<>>
                           ELSE v6Finish(<<>>, acc \o <<ip4[13] * 256 + ip4[14], ip4[15] * 256 + ip4[16]>>, ell)
             ELSE LET s1   == Drop(s, x.c)
                      acc1 == Append(acc, x.n)
                  IN  IF s1 = <<>> THEN v6Finish(s1, acc1, ell)
                      ELSE IF s1[1] # 58 \/ Len(s1) = 1 THEN <<>>
                      ELSE LET s2 == Tail(s1)
                           IN  IF s2[1] = 58
                               THEN IF ell >= 0 THEN <<>>
                                    ELSE IF Tail(s2) = <<>> THEN v6Finish(<<>>, acc1, Len(acc1))
                                    ELSE v6Loop(Tail(s2), acc1, Len(acc1))
                               ELSE v6Loop(s2, acc1, ell)

parseIPv6(s) ==
    IF Len(s) >= 2 /\ s[1] = 58 /\ s[2] = 58
    THEN IF Len(s) = 2 THEN Fill(16, 0) ELSE v6Loop(Drop(s, 2), <<>>, 0)
    ELSE v6Loop(s, <<>>, -1)

\* net.ParseIP: the first '.' or ':' decides the syntax; <<>> (nil) when the
\* text is no IP literal
ParseIP(s) ==
    LET marks == {i \in 1..Len(s) : s[i] \in {46, 58}}
    IN  IF marks = {} THEN <<>>
        ELSE LET m == CHOOSE i \in marks : \A j \in marks : i <= j
             IN  IF s[m] = 46 THEN parseIPv4(s) ELSE parseIPv6(s)

\* ------------------------------------------------------------------------
\* The buffered source
\* ------------------------------------------------------------------------
\* A *bufio.Reader over its source is [data, term]: data is the bytes not yet
\* consumed that the source delivers (buffered or still to be read), term is
\* what follows them: "EOF" (the source ends), "timeout" (the read deadline
\* expires) or "more" (the source blocks until the peer sends again).

Reader(data, term) == [data |-> data, term |-> term]

\* Whether n more bytes can be read: "ok", "err" (the source fails first) or
\* "blocked" (the call waits)
Need(r, n) ==
    IF Len(r.data) >= n THEN "ok"
    ELSE IF r.term = "more" THEN "blocked"
    ELSE "err"

\* bufio.Reader.Peek(n): fills until n bytes are buffered, the buffer is full
\* or the source fails; n beyond the buffer size is ErrBufferFull
Peek(r, n) ==
    IF n <= defaultBufSize THEN Need(r, n)
    ELSE IF Len(r.data) >= defaultBufSize \/ r.term # "more" THEN "err"
    ELSE "blocked"

\* The outcome of a parse: done with (header, error) and the reader left at
\* rest, or blocked waiting for the source
Done(hdr, err, rest) == [status |-> "done", hdr |-> hdr, err |-> err, rest |-> rest]

Blocked == [status |-> "blocked"]

\* ------------------------------------------------------------------------
\* Version 1 (v1.go)
\* ------------------------------------------------------------------------

TCP4 == <<84, 67, 80, 52>>

TCP6 == <<84, 67, 80, 54>>

UNKNOWN == <<85, 78, 75, 78, 79, 87, 78>>

\* parseV1Port with the upper bound off by one
parseV1PortExclusive(portStr) ==
    LET a == Atoi(portStr)
    IN  IF a.err # "nil" THEN [port |-> 0, err |-> a.err]
        ELSE IF a.n < 0 \/ a.n >= 65535 THEN [port |-> 0, err |-> "ErrInvalidPortNumber"]
        ELSE [port |-> a.n, err |-> "nil"]

parseV1Port(portStr) ==
    LET a == Atoi(portStr)
    IN  IF a.err # "nil" THEN [port |-> 0, err |-> a.err]
        ELSE IF a.n < 0 \/ a.n > 65535 THEN [port |-> 0, err |-> "ErrInvalidPortNumber"]
        ELSE [port |-> a.n, err |-> "nil"]

\* The family check of parseV1IPAddress letting an IPv4 address pass for TCP6
v1CheckFamilyLoose(proto, addr) ==
    CASE proto \in {TCPv4, UDPv4} ->
           IF To4(addr) = <<>> THEN [ip |-> <<>>, err |-> "ErrInvalidAddress"] ELSE [ip |-> addr, err |-> "nil"]
      [] proto \in {TCPv6, UDPv6} -> [ip |-> addr, err |-> "nil"]
      [] OTHER -> [ip |-> <<>>, err |-> "ErrInvalidAddress"]

\* The family check of parseV1IPAddress on the parsed address
v1CheckFamily(proto, addr) ==
    CASE proto \in {TCPv4, UDPv4} ->
           IF To4(addr) = <<>> THEN [ip |-> <<>>, err |-> "ErrInvalidAddress"] ELSE [ip |-> addr, err |-> "nil"]
      [] proto \in {TCPv6, UDPv6} ->
           IF To4(addr) # <<>> THEN [ip |-> <<>>, err |-> "ErrInvalidAddress"] ELSE [ip |-> addr, err |-> "nil"]
      [] OTHER -> [ip |-> <<>>, err |-> "ErrInvalidAddress"]

parseV1IPAddress(proto, addrStr) == v1CheckFamily(proto, ParseIP(addrStr))

\* The protocol a v1 protocol token stands for
v1Protocol(token) ==
    CASE token = TCP4 -> TCPv4
      [] token = TCP6 -> TCPv6
      [] OTHER -> UNSPEC

\* The end of parseVersion1: the first failing field decides the error
v1Result(proto, src, dst, sp, dp, rest) ==
    IF src.err # "nil" THEN Done(NilHeader, src.err, rest)
    ELSE IF dst.err # "nil" THEN Done(NilHeader, dst.err, rest)
    ELSE IF sp.err # "nil" THEN Done(NilHeader, sp.err, rest)
    ELSE IF dp.err # "nil" THEN Done(NilHeader, dp.err, rest)
    ELSE Done([NewHeader(1) EXCEPT !.TransportProtocol = proto,
                                   !.SrcAddr = src.ip, !.DstAddr = dst.ip,
                                   !.SrcPort = sp.port, !.DstPort = dp.port],
              "nil", rest)

v1Fields(proto, tokens, rest) ==
    v1Result(proto, parseV1IPAddress(proto, tokens[3]), parseV1IPAddress(proto, tokens[4]),
             parseV1Port(tokens[5]), parseV1Port(tokens[6]), rest)

\* The header built from the tokens of a v1 line
v1Header(tokens, rest) == v1Fields(v1Protocol(tokens[2]), tokens, rest)

parseVersion1(r) ==
    LET nl == IndexByte(r.data, 10)
    IN  IF nl = 0
        THEN \* ReadString consumes all there is and fails: no CRLF at the end
             IF r.term = "more" THEN Blocked
             ELSE Done(NilHeader, "ErrCantReadProtocolVersionAndCommand", <<>>)
        ELSE LET line == SubSeq(r.data, 1, nl)
                 rest == Drop(r.data, nl)
             IN  IF ~HasSuffix(line, CRLF)
                 THEN Done(NilHeader, "ErrCantReadProtocolVersionAndCommand", rest)
                 ELSE LET tokens == Split(SubSeq(line, 1, Len(line) - 2), v1Sep[1])
                      IN  IF Len(tokens) < 6
                          THEN Done(NilHeader, "ErrCantReadProtocolVersionAndCommand", rest)
                          ELSE v1Header(tokens, rest)

writeVersion1(h) ==
    LET proto == CASE h.TransportProtocol = TCPv4 -> TCP4
                   [] h.TransportProtocol = TCPv6 -> TCP6
                   [] OTHER -> UNKNOWN
        buf   == SIGV1 \o v1Sep \o proto \o v1Sep \o IPString(h.SrcAddr) \o v1Sep
                 \o IPString(h.DstAddr) \o v1Sep \o Itoa(h.SrcPort) \o v1Sep
                 \o Itoa(h.DstPort) \o CRLF
    IN  [n |-> Len(buf), err |-> "nil", out |-> buf]

\* ------------------------------------------------------------------------
\* Version 2 (v2.go)
\* ------------------------------------------------------------------------

\* fixedAddrLen2Bytes in little-endian order
fixedAddrLen2BytesLittleEndian(len) == <<len % 256, len \div 256>>

fixedAddrLen2Bytes(len) == PutUint16(len)

\* The address block at the front of the declared region: _addr4 or _addr6
v2Addresses(hdr, body) ==
    LET n == IF IsIPv4(hdr.TransportProtocol) THEN 4 ELSE 16
    IN  [hdr EXCEPT !.SrcAddr = SubSeq(body, 1, n),
                    !.DstAddr = SubSeq(body, n + 1, 2 * n),
                    !.SrcPort = Uint16(SubSeq(body, 2 * n + 1, 2 * n + 2)),
                    !.DstPort = Uint16(SubSeq(body, 2 * n + 3, 2 * n + 4))]

\* parseVersion2 from the length field on; d is the data after the 14th byte
v2Body(hdr, d, term) ==
    IF Len(d) < 2
    THEN IF term = "more" THEN Blocked ELSE Done(NilHeader, "ErrCantReadLength", <<>>)
    ELSE LET len  == Uint16(d)
             body == Drop(d, 2)
         IN  IF ~validateLeastAddressLen(hdr.TransportProtocol, len)
             THEN Done(NilHeader, "ErrInvalidLength", body)
             ELSE CASE Peek(Reader(body, term), len) = "blocked" -> Blocked
                    [] Peek(Reader(body, term), len) = "err" ->
                         Done(NilHeader, "ErrInvalidLength", body)
                    [] len < (IF IsIPv4(hdr.TransportProtocol) THEN v4AddrLen ELSE v6AddrLen) ->
                         \* binary.Read runs out of the length-limited reader
                         Done(NilHeader, "ErrInvalidAddress", Drop(body, len))
                    [] OTHER ->
                         \* the addresses are decoded and the rest of the
                         \* declared region is drained
                         Done(v2Addresses(hdr, body), "nil", Drop(body, len))

parseVersion2(r) ==
    LET d12 == Drop(r.data, Len(SIGV2))
    IN  IF d12 = <<>>
        THEN IF r.term = "more" THEN Blocked
             ELSE Done(NilHeader, "ErrCantReadProtocolVersionAndCommand", <<>>)
        ELSE LET hdr == [NewHeader(2) EXCEPT !.Command = d12[1]]
                 d13 == Tail(d12)
             IN  IF ~isSupportedCommand(hdr.Command)
                 THEN Done(NilHeader, "ErrUnsupportedProtocolVersionAndCommand", d13)
                 ELSE IF IsLocal(hdr.Command)
                 THEN Done(hdr, "nil", d13)
                 ELSE IF d13 = <<>>
                 THEN IF r.term = "more" THEN Blocked
                      ELSE Done(NilHeader, "ErrCantReadAddressFamilyAndProtocol", <<>>)
                 ELSE LET hdr2 == [hdr EXCEPT !.TransportProtocol = d13[1]]
                      IN  IF ~isSupportedTransportProtocol(hdr2.TransportProtocol)
                          THEN Done(NilHeader, "ErrUnsupportedAddressFamilyAndProtocol", Tail(d13))
                          ELSE v2Body(hdr2, Tail(d13), r.term)

\* writeVersion2 with the two addresses written in the wrong order
writeVersion2Swapped(h) ==
    LET head == SIGV2 \o <<h.Command>>
        addr == CASE IsIPv4(h.TransportProtocol) ->
                       fixedAddrLen2Bytes(v4AddrLen) \o To4(h.DstAddr) \o To4(h.SrcAddr)
                  [] IsIPv6(h.TransportProtocol) ->
                       fixedAddrLen2Bytes(v6AddrLen) \o To16(h.DstAddr) \o To16(h.SrcAddr)
                  [] OTHER -> <<>>
        buf  == IF IsLocal(h.Command) THEN head
                ELSE head \o <<h.TransportProtocol>> \o addr
                     \o PutUint16(h.SrcPort) \o PutUint16(h.DstPort)
    IN  [n |-> Len(buf), err |-> "nil", out |-> buf]

writeVersion2(h) ==
    LET head == SIGV2 \o <<h.Command>>
        addr == CASE IsIPv4(h.TransportProtocol) ->
                       fixedAddrLen2Bytes(v4AddrLen) \o To4(h.SrcAddr) \o To4(h.DstAddr)
                  [] IsIPv6(h.TransportProtocol) ->
                       fixedAddrLen2Bytes(v6AddrLen) \o To16(h.SrcAddr) \o To16(h.DstAddr)
                  [] OTHER -> <<>>
        buf  == IF IsLocal(h.Command) THEN head
                ELSE head \o <<h.TransportProtocol>> \o addr
                     \o PutUint16(h.SrcPort) \o PutUint16(h.DstPort)
    IN  [n |-> Len(buf), err |-> "nil", out |-> buf]

\* ------------------------------------------------------------------------
\* Dispatch (protocol.go)
\* ------------------------------------------------------------------------

\* WriteTo taking every version other than 1 for version 2
WriteToDefaultV2(h) == IF h.Version = 1 THEN writeVersion1(h) ELSE writeVersion2(h)

WriteTo(h) ==
    CASE h.Version = 1 -> writeVersion1(h)
      [] h.Version = 2 -> writeVersion2(h)
      [] OTHER -> [n |-> 0, err |-> "ErrUnknownProxyProtocolVersion", out |-> <<>>]

\* "return nil, ErrNoProxyProtocol" after a peek that consumed a byte
NoProxyConsumed(br) == Done(NilHeader, "ErrNoProxyProtocol", Drop(br.data, 1))

\* "return nil, ErrNoProxyProtocol": Read has only peeked, the reader still
\* holds every byte
NoProxy(br) == Done(NilHeader, "ErrNoProxyProtocol", br.data)

\* Read looking for the 12-byte binary signature before the 5-byte text one
ReadBinaryFirst(br) ==
    CASE Peek(br, 1) = "blocked" -> Blocked
      [] Peek(br, 1) = "err" -> NoProxy(br)
      [] OTHER ->
           IF br.data[1] # SIGV1[1] /\ br.data[1] # SIGV2[1]
           THEN NoProxy(br)
           ELSE CASE Peek(br, 12) = "blocked" -> Blocked
                  [] Peek(br, 12) = "err" -> NoProxy(br)
                  [] OTHER ->
                       IF SubSeq(br.data, 1, 12) = SIGV2 THEN parseVersion2(br)
                       ELSE IF SubSeq(br.data, 1, 5) = SIGV1 THEN parseVersion1(br)
                       ELSE NoProxy(br)

Read(br) ==
    CASE Peek(br, 1) = "blocked" -> Blocked
      [] Peek(br, 1) = "err" -> NoProxy(br)
      [] OTHER ->
           IF br.data[1] # SIGV1[1] /\ br.data[1] # SIGV2[1]
           THEN NoProxy(br)
           ELSE CASE Peek(br, 5) = "blocked" -> Blocked
                  [] Peek(br, 5) = "err" -> NoProxy(br)
                  [] OTHER ->
                       IF SubSeq(br.data, 1, 5) = SIGV1 THEN parseVersion1(br)
                       ELSE CASE Peek(br, 12) = "blocked" -> Blocked
                              [] Peek(br, 12) = "err" -> NoProxy(br)
                              [] OTHER ->
                                   IF SubSeq(br.data, 1, 12) = SIGV2 THEN parseVersion2(br)
                                   ELSE NoProxy(br)

\* ------------------------------------------------------------------------
\* The codec as a state machine: a fixture is written and read back, or raw
\* bytes are read, through a buffered reader over an in-memory source
\* ------------------------------------------------------------------------

VARIABLES
    phase,      \* "header", "bytes", "parsed", "drained" or "failed"
    fixture,    \* what the run starts from: a Header, raw bytes or a padded v2 header
    input,      \* the bytes placed in the source
    term,       \* what the source does once its bytes are consumed
    src,        \* the bytes of the buffered source not yet consumed
    wres,       \* WriteTo's return values
    result,     \* Read's return values
    after       \* the bytes read from the buffered source after Read returned

codecVars == <<phase, fixture, input, term, src, wres, result, after>>

\* The state of one Conn, of the socket it wraps and of the goroutines calling it
VARIABLES
    script,             \* the chunks the peer has still to write
    sent,               \* every byte the peer has written so far
    wire,               \* bytes written by the peer and not yet read from p.conn
    peerClosed,         \* the peer has closed its end
    connClosed,         \* p.conn.Close() has been called
    deadline,           \* p.conn's read deadline: "none", "armed" or "expired"
    br,                 \* which reader p.br is: 0 is NewConn's, each replacement adds 1
    brBuf,              \* the bytes buffered in p.br
    header,             \* p.header
    useConnAddr,        \* p.useConnAddr
    proxyHeaderTimeout, \* p.proxyHeaderTimeout (0, or 1 for any positive duration)
    once,               \* p.once: "fresh", "running" (f is executing) or "done"
    readHeaderCalls,    \* how many times readHeader has been entered
    outcome,            \* the error of Read(p.br) inside readHeader; "pending" before
    pc,                 \* per goroutine: "idle", "once", "header", "after", "returned"
    op,                 \* per goroutine: the method it is in or last called
    ran,                \* per goroutine: its current call is the one that ran readHeader
    callErr,            \* per goroutine: the local err of Conn.Read
    ret,                \* per goroutine: what its last call returned
    ncalls,             \* how many calls have been made on the Conn
    delivered,          \* the bytes Conn.Read has handed to its callers, in order
    headerWait          \* how Read(p.br) in readHeader stopped waiting, and with what

connVars ==
    <<script, sent, wire, peerClosed, connClosed, deadline, br, brBuf, header, useConnAddr,
      proxyHeaderTimeout, once, readHeaderCalls, outcome, pc, op, ran, callErr, ret,
      ncalls, delivered, headerWait>>

\* One call of ReadTimeout on a reader whose source delivers bytes over time
VARIABLES
    tAvail,     \* bytes the source has delivered and the reader has not consumed
    tPending,   \* the chunks the source has still to deliver
    tEnded,     \* the source has reported its end (otherwise it just stays silent)
    tMain,      \* ReadTimeout: "start", "select" (blocked in select) or "returned"
    timer,      \* "none", "running", "stopped" or "fired"
    readCh,     \* what the goroutine has sent on the channel read; NoResult before
    tRet        \* ReadTimeout's return values

timeoutVars == <<tAvail, tPending, tEnded, tMain, timer, readCh, tRet>>

\* A Listener and the Accept calls made on it
VARIABLES
    ProxyHeaderTimeout, \* p.ProxyHeaderTimeout (0, or 1 for any positive duration)
    SourceCheck,        \* p.SourceCheck: whether it is set, and its answer per address
    underlying,         \* what p.Listener.Accept() has returned, call after call
    checked,            \* the arguments SourceCheck has been called with, in order
    acceptRet,          \* what the last Accept returned
    rawClosed           \* which of the connections in underlying Accept has closed

listenerVars == <<ProxyHeaderTimeout, SourceCheck, underlying, checked, acceptRet, rawClosed>>

\* The calls a Conn passes on to the socket it wraps
VARIABLES
    written,        \* the bytes handed to p.conn.Write so far
    writeDeadline,  \* p.conn's write deadline: "none" or "caller"
    forwardRet,     \* the error the last forwarded call returned; "none" before
    nforward,       \* the number of forwarded calls made so far
    earlyDeadline   \* the read deadline the caller installed before the first Read,
                    \* LocalAddr or RemoteAddr; "changed" once it is set again later

forwardVars == <<written, writeDeadline, forwardRet, nforward, earlyDeadline>>

vars == <<codecVars, connVars, timeoutVars, listenerVars, forwardVars>>

\* Bounds of the fixtures
NumPorts == 3

NumAddrs == 4

NumPadLens == 5

Ports == {<<0, 443, 65535, 65533, 80>>[i] : i \in 1..NumPorts}

A4 == <<127, 0, 0, 1>>

A4in6 == v4InV6Prefix \o <<10, 0, 200, 255>>

A6a == Fill(15, 0) \o <<1>>

A6b == <<32, 1, 13, 184, 0, 0, 0, 0, 0, 1, 0, 0, 0, 0, 0, 1>>

A6c == <<254, 128, 0, 0, 0, 0, 0, 0, 2, 0, 94, 255, 254, 0, 83, 171>>

A4b == <<192, 168, 0, 10>>

Addrs == {<<A4, A6a, A4in6, A6b, A6c, A4b>>[i] : i \in 1..NumAddrs}

Versions == {1, 2, 3}

Commands == {CmdLOCAL, PROXY}

Protocols == {TCPv4, UDPv4, TCPv6, UDPv6}

Headers ==
    [Version : Versions, Command : Commands, TransportProtocol : Protocols,
     SrcAddr : Addrs, DstAddr : Addrs, SrcPort : Ports, DstPort : Ports]

\* An address of the family the protocol names.  The family of a net.IP is
\* what To4 says: an IPv4-in-IPv6 address is an IPv4 address.
FamilyMatches(proto, ip) ==
    \/ IsIPv4(proto) /\ To4(ip) # <<>>
    \/ IsIPv6(proto) /\ Len(ip) = 16 /\ To4(ip) = <<>>

ValidHeader(h) ==
    /\ h.Version \in {1, 2}
    /\ h.Command \in {CmdLOCAL, PROXY}
    /\ h.TransportProtocol \in {TCPv4, UDPv4, TCPv6, UDPv6}
    /\ FamilyMatches(h.TransportProtocol, h.SrcAddr)
    /\ FamilyMatches(h.TransportProtocol, h.DstAddr)
    /\ h.SrcPort \in 0..65535
    /\ h.DstPort \in 0..65535

NoHeader == NewHeader(0)

HeaderFixture(h) ==
    [kind |-> "header", h |-> h, len |-> 0, trailer |-> <<>>, bytes |-> <<>>]

RawFixture(b) ==
    [kind |-> "raw", h |-> NoHeader, len |-> 0, trailer |-> <<>>, bytes |-> b]

\* A v2 PROXY header for h whose length field is len: the fixed address block,
\* padding up to len, then the trailer
PaddedFixture(h, len, pad, trailer) ==
    [kind |-> "padded", h |-> h, len |-> len, trailer |-> trailer,
     bytes |-> SIGV2 \o <<PROXY, h.TransportProtocol>> \o PutUint16(len)
               \o h.SrcAddr \o h.DstAddr \o PutUint16(h.SrcPort) \o PutUint16(h.DstPort)
               \o Fill(len - (IF IsIPv4(h.TransportProtocol) THEN v4AddrLen ELSE v6AddrLen), pad)
               \o trailer]

PadLens == {<<37, 84, 4096, 4097, 13, 5000>>[i] : i \in 1..NumPadLens}

Trailers == {<<>>, <<153, 151, 152>>, SIGV1}

PaddedHeader(p) ==
    [Version |-> 2, Command |-> PROXY, TransportProtocol |-> p,
     SrcAddr |-> IF IsIPv4(p) THEN A4 ELSE A6b,
     DstAddr |-> IF IsIPv4(p) THEN A4b ELSE A6a,
     SrcPort |-> 65533, DstPort |-> 443]

PaddedFixtures ==
    UNION {{PaddedFixture(PaddedHeader(p), len, pad, t) :
                len \in {l \in PadLens : l > (IF IsIPv4(p) THEN v4AddrLen ELSE v6AddrLen)},
                pad \in {0, 153}, t \in Trailers} : p \in Protocols}

\* Text used by the raw inputs
Txt4 == IPString(A4)

Txt6 == IPString(A6a)

V1Line(proto, a, b, p, q) ==
    SIGV1 \o v1Sep \o proto \o v1Sep \o a \o v1Sep \o b \o v1Sep \o p \o v1Sep \o q

GET == <<71, 69, 84, 32, 47>>

RawInputs ==
    {   <<>>, <<80>>, <<13>>, <<112, 105, 110, 103>>, <<80, 73, 78, 71>>,
        SubSeq(SIGV1, 1, 4), Tail(SIGV1), SIGV1, SIGV1 \o CRLF,
        <<80, 82, 79, 88, 90, 32, 13, 10>>,
        SubSeq(SIGV2, 1, 11), Drop(SIGV2, 2), SIGV2,
        [SIGV2 EXCEPT ![12] = 11] \o <<PROXY>>,
        <<84, 104, 101, 114, 101, 32, 105, 115, 32, 110, 111>>,
        SIGV1 \o v1Sep \o CRLF,
        V1Line(TCP4, Txt4, Txt4, Itoa(65533), Itoa(65533)),
        V1Line(TCP4, Txt4, Txt4, Itoa(65533), Itoa(65533)) \o <<10>> \o GET,
        V1Line(TCP4, Txt4, Txt4, Itoa(65533), Itoa(65533)) \o CRLF \o GET,
        V1Line(TCP6, Txt6, Txt6, Itoa(0), Itoa(65535)) \o CRLF \o GET,
        V1Line(TCP6, Txt4, Txt4, Itoa(1), Itoa(2)) \o CRLF,
        V1Line(TCP4, Txt6, Txt6, Itoa(1), Itoa(2)) \o CRLF,
        V1Line(UNKNOWN, Txt4, Txt4, Itoa(1), Itoa(2)) \o CRLF,
        V1Line(TCP6, GET, GET, Itoa(1), Itoa(2)) \o CRLF \o GET,
        V1Line(TCP4, Txt4, Txt4, Itoa(65536), Itoa(2)) \o CRLF,
        V1Line(TCP4, Txt4, Txt4, Itoa(1), <<45, 49>>) \o CRLF,
        V1Line(TCP4, Txt4, Txt4, <<120>>, Itoa(2)) \o CRLF,
        SIGV1 \o <<88>> \o Drop(V1Line(TCP4, Txt4, Txt4, Itoa(1), Itoa(2)), 5) \o CRLF \o GET,
        SIGV2 \o <<153>>, SIGV2 \o <<PROXY>>, SIGV2 \o <<PROXY, 153>>,
        SIGV2 \o <<PROXY, UNSPEC, 0, 0>>, SIGV2 \o <<PROXY, 49, 0, 12>> \o Fill(12, 1),
        SIGV2 \o <<PROXY, TCPv4>>, SIGV2 \o <<PROXY, TCPv4, 153>>,
        SIGV2 \o <<PROXY, TCPv4, 0, 12>>, SIGV2 \o <<PROXY, TCPv6, 0, 36>>,
        SIGV2 \o <<PROXY, TCPv4, 0, 0>> \o Fill(36, 1),
        SIGV2 \o <<PROXY, TCPv6, 0, 12>> \o Fill(12, 1),
        SIGV2 \o <<PROXY, TCPv6, 0, 36>> \o Fill(12, 1),
        SIGV2 \o <<PROXY, UDPv4, 0, 12>> \o Fill(11, 1),
        SIGV2 \o <<PROXY, UDPv4, 0, 12>> \o Fill(12, 1) \o GET,
        SIGV2 \o <<CmdLOCAL>>, SIGV2 \o <<CmdLOCAL, UNSPEC, 0, 12>> \o Fill(12, 1),
        SIGV2 \o <<CmdLOCAL>> \o GET
    }

Fixtures ==
    {HeaderFixture(h) : h \in Headers} \cup {RawFixture(b) : b \in RawInputs} \cup PaddedFixtures

NoWrite == [n |-> 0, err |-> "none"]

NoResult == [hdr |-> NilHeader, err |-> "none"]

NumCallers == 2

Callers == 1..NumCallers

NoAddr == [type |-> "none", IP |-> <<>>, Port |-> 0]

NoRet == [n |-> 0, err |-> "none", addr |-> NoAddr]

\* ReadTimeout not called, nothing to read
NoReadTimeout ==
    /\ tAvail = <<>>
    /\ tPending = <<>>
    /\ tEnded = FALSE
    /\ tMain = "start"
    /\ timer = "none"
    /\ readCh = NoResult
    /\ tRet = NoResult

\* A nil *Conn
NoConn == [remote |-> NoAddr, proxyHeaderTimeout |-> 0, useConnAddr |-> FALSE]

NoAccept == [conn |-> NoConn, err |-> "none"]

\* The connections a listener may be handed come from these addresses
Peers ==
    { [type |-> "TCPAddr", IP |-> <<10, 1, 1, 2>>, Port |-> 40000],
      [type |-> "TCPAddr", IP |-> <<192, 0, 2, 7>>, Port |-> 40001] }

\* A nil SourceCheck
NoSourceCheck == [set |-> FALSE, answer |-> [a \in Peers |-> "trusted"]]

\* No Listener in use
NoListener ==
    /\ ProxyHeaderTimeout = 0
    /\ SourceCheck = NoSourceCheck
    /\ underlying = <<>>
    /\ checked = <<>>
    /\ acceptRet = NoAccept
    /\ rawClosed = {}

\* No forwarded call made
NoForward ==
    /\ written = <<>>
    /\ writeDeadline = "none"
    /\ forwardRet = "none"
    /\ nforward = 0
    /\ earlyDeadline = "none"

\* headerWait before readHeader has returned; afterwards how is "parsed" or
\* what ended the wait, and silent tells whether the peer had written nothing
NoWait == [how |-> "pending", silent |-> TRUE]

\* A Conn nobody has called yet, wrapping a socket over which the peer is
\* about to write the chunks of s
NewConn(s, timeout, useConn) ==
    /\ script = s
    /\ sent = <<>>
    /\ wire = <<>>
    /\ peerClosed = FALSE
    /\ connClosed = FALSE
    /\ deadline = "none"
    /\ br = 0
    /\ brBuf = <<>>
    /\ header = NilHeader
    /\ useConnAddr = useConn
    /\ proxyHeaderTimeout = timeout
    /\ once = "fresh"
    /\ readHeaderCalls = 0
    /\ outcome = "pending"
    /\ pc = [c \in Callers |-> "idle"]
    /\ op = [c \in Callers |-> "none"]
    /\ ran = [c \in Callers |-> FALSE]
    /\ callErr = [c \in Callers |-> "nil"]
    /\ ret = [c \in Callers |-> NoRet]
    /\ ncalls = 0
    /\ delivered = <<>>
    /\ headerWait = NoWait

CodecInit ==
    /\ fixture \in Fixtures
    /\ phase = IF fixture.kind = "header" THEN "header" ELSE "bytes"
    /\ input = fixture.bytes
    /\ src = fixture.bytes
    /\ term \in {"EOF", "timeout"}
    /\ wres = NoWrite
    /\ result = NoResult
    /\ after = <<>>
    /\ NewConn(<<>>, 0, FALSE)
    /\ NoReadTimeout
    /\ NoListener
    /\ NoForward

\* The effect of WriteTo's return values w
Written(w) ==
    /\ wres' = [n |-> w.n, err |-> w.err]
    /\ input' = w.out
    /\ src' = w.out
    /\ phase' = IF w.err = "nil" THEN "bytes" ELSE "failed"

\* h.WriteTo(w), w the in-memory source the reader is then opened on
DoWriteTo ==
    /\ phase = "header"
    /\ Written(WriteTo(fixture.h))
    /\ UNCHANGED <<fixture, term, result, after, connVars, timeoutVars, listenerVars, forwardVars>>

\* The effect of Read's outcome r
Parsed(r) ==
    /\ r.status = "done"
    /\ result' = [hdr |-> r.hdr, err |-> r.err]
    /\ src' = r.rest

\* Read(br)
DoRead ==
    /\ phase = "bytes"
    /\ Parsed(Read(Reader(src, term)))
    /\ phase' = "parsed"
    /\ UNCHANGED <<fixture, input, term, wres, after, connVars, timeoutVars, listenerVars, forwardVars>>

\* The caller reads what is left in the buffered source
DoDrain ==
    /\ phase = "parsed"
    /\ after' = src
    /\ src' = <<>>
    /\ phase' = "drained"
    /\ UNCHANGED <<fixture, input, term, wres, result, connVars, timeoutVars, listenerVars, forwardVars>>

CodecNext == DoWriteTo \/ DoRead \/ DoDrain

CodecSpec == CodecInit /\ [][CodecNext]_vars

\* ------------------------------------------------------------------------
\* Read on malformed input: the inputs are v1 lines built from tokens and v2
\* headers built byte by byte, each read once through a buffered reader
\* ------------------------------------------------------------------------

\* "9" written n times
Nines(n) == Fill(n, 57)

\* Port tokens: "0", "443", "65535", "65536", "-1", "abc", "", "+5", "0080",
\* "6553x", and a number too large for an int
PortTokens ==
    { Itoa(0), Itoa(443), Itoa(65535), Itoa(65536), <<45, 49>>, <<97, 98, 99>>, <<>>,
      <<43, 53>>, <<48, 48, 56, 48>>, <<54, 53, 53, 51, 120>>, Nines(20) }

\* "::ffff:10.0.200.255"
Txt4in6 == <<58, 58, 102, 102, 102, 102, 58>> \o IPString(Drop(A4in6, 12))

\* Address tokens: "127.0.0.1", "::1", "2001:db8::1:0:0:1", "::ffff:10.0.200.255",
\* and texts that are no IP literal: "2001:db8:1", "256.1.1.1", "host", ""
AddrTokens ==
    { Txt4, Txt6, IPString(A6b), Txt4in6,
      <<50, 48, 48, 49, 58, 100, 98, 56, 58, 49>>, <<50, 53, 54, 46, 49, 46, 49, 46, 49>>,
      <<104, 111, 115, 116>>, <<>> }

\* Protocol tokens: "TCP4", "TCP6", "UNKNOWN", "UDP4", "tcp4", ""
ProtoTokens ==
    { TCP4, TCP6, UNKNOWN, <<85, 68, 80, 52>>, <<116, 99, 112, 52>>, <<>> }

\* A complete v1 header followed by the start of a request
WholeV1Line == V1Line(TCP4, Txt4, Txt4, Itoa(65533), Itoa(443)) \o CRLF \o GET

V1Inputs ==
    {V1Line(TCP4, Txt4, Txt4, p, q) \o CRLF : p \in PortTokens, q \in PortTokens}
    \cup {V1Line(TCP6, Txt6, IPString(A6b), p, Itoa(443)) \o CRLF \o GET : p \in PortTokens}
    \cup {V1Line(t, a, b, Itoa(1), Itoa(2)) \o CRLF : t \in ProtoTokens, a \in AddrTokens, b \in AddrTokens}
    \cup {Take(WholeV1Line, k) : k \in 5..Len(WholeV1Line)}
    \cup {Take(WholeV1Line, k) \o <<10>> \o GET : k \in 5..(Len(WholeV1Line) - 7)}
    \cup {Take(WholeV1Line, k) \o CRLF \o GET : k \in 5..(Len(WholeV1Line) - 7)}

\* The number of bytes that follow a v2 length field
BodyLens == {0, 1, 11, 12, 13, 35, 36, 37, 40}

\* Declared lengths, as the two bytes of the length field
LenFields ==
    {PutUint16(n) : n \in {0, 1, 11, 12, 13, 35, 36, 37, 256, 3072}}

V2Inputs ==
    {SIGV2}
    \cup {SIGV2 \o <<c>> \o rest : c \in 0..255, rest \in {<<>>, <<TCPv4, 0, 12>> \o Fill(12, 1)}}
    \cup {SIGV2 \o <<PROXY, f>> \o rest :
              f \in 0..255,
              rest \in {<<>>, <<0, 12>> \o Fill(12, 1), <<0, 36>> \o Fill(36, 1) \o GET}}
    \cup {SIGV2 \o <<PROXY, f, 0>> : f \in Protocols}
    \cup {SIGV2 \o <<PROXY, f>> \o l \o Fill(n, 1) : f \in Protocols, l \in LenFields, n \in BodyLens}

ParseInputs == V1Inputs \cup V2Inputs

ParseInit ==
    /\ fixture \in {RawFixture(b) : b \in ParseInputs}
    /\ phase = "bytes"
    /\ input = fixture.bytes
    /\ src = fixture.bytes
    /\ term \in {"EOF", "timeout"}
    /\ wres = NoWrite
    /\ result = NoResult
    /\ after = <<>>
    /\ NewConn(<<>>, 0, FALSE)
    /\ NoReadTimeout
    /\ NoListener
    /\ NoForward

ParseNext == DoRead \/ DoDrain

ParseSpec == ParseInit /\ [][ParseNext]_vars

\* ------------------------------------------------------------------------
\* Conn: the lazily resolved connection wrapper
\* ------------------------------------------------------------------------

MaxCalls == 3

NumReadSizes == 2

\* len(b) of the buffers handed to Conn.Read
ReadSizes == {<<4, 64, 4096, 1>>[i] : i \in 1..NumReadSizes}

Ops == {"Read", "LocalAddr", "RemoteAddr"}

Min(a, b) == IF a < b THEN a ELSE b

\* The addresses of the wrapped socket: p.conn.LocalAddr(), p.conn.RemoteAddr()
SockLocalAddr == [type |-> "TCPAddr", IP |-> <<10, 1, 1, 1>>, Port |-> 8080]

SockRemoteAddr == [type |-> "TCPAddr", IP |-> <<10, 1, 1, 2>>, Port |-> 40000]

\* A call that ends in a nil pointer dereference
Panic == [type |-> "panic", IP |-> <<>>, Port |-> 0]

\* Header.addr returning a TCP address whatever the protocol
HeaderAddrStreamOnly(h, addr, port) ==
    IF IsStream(h.TransportProtocol) \/ IsDatagram(h.TransportProtocol)
    THEN [type |-> "TCPAddr", IP |-> addr, Port |-> port]
    ELSE [type |-> "IPAddr", IP |-> <<>>, Port |-> 0]

\* Header.addr
HeaderAddr(h, addr, port) ==
    CASE IsStream(h.TransportProtocol) -> [type |-> "TCPAddr", IP |-> addr, Port |-> port]
      [] IsDatagram(h.TransportProtocol) -> [type |-> "UDPAddr", IP |-> addr, Port |-> port]
      [] OTHER -> [type |-> "IPAddr", IP |-> <<>>, Port |-> 0]

\* Header.RemoteAddr: h.SrcAddr is read through the receiver, nil or not
HeaderRemoteAddr(h) ==
    IF h = NilHeader THEN Panic ELSE HeaderAddr(h, h.SrcAddr, h.SrcPort)

\* Header.LocalAddr
HeaderLocalAddr(h) ==
    IF h = NilHeader THEN Panic ELSE HeaderAddr(h, h.DstAddr, h.DstPort)

\* isInvalidHeaderAddr with the nil test inverted
isInvalidHeaderAddrNonNil(addr) == addr.type = "IPAddr" /\ addr.IP # <<>>

isInvalidHeaderAddr(addr) == addr.type = "IPAddr" /\ addr.IP = <<>>

\* The choice between the header's address a and the socket's address sock
\* that Conn.LocalAddr and Conn.RemoteAddr make after readHeaderOnce
AddrAfterResolution(a, sock) ==
    IF a = Panic THEN Panic
    ELSE IF isInvalidHeaderAddr(a) \/ useConnAddr THEN sock
    ELSE a

ConnLocalAddr == AddrAfterResolution(HeaderLocalAddr(header), SockLocalAddr)

ConnRemoteAddr == AddrAfterResolution(HeaderRemoteAddr(header), SockRemoteAddr)

Ping == <<112, 105, 110, 103>>

ProxiedV1 ==
    [NewHeader(1) EXCEPT !.Command = PROXY, !.TransportProtocol = TCPv4,
                         !.SrcAddr = A4b, !.DstAddr = A4, !.SrcPort = 65533, !.DstPort = 443]

ProxiedV2 ==
    [NewHeader(2) EXCEPT !.Command = PROXY, !.TransportProtocol = TCPv6,
                         !.SrcAddr = A6b, !.DstAddr = A6a, !.SrcPort = 65533, !.DstPort = 443]

ProxiedV2Datagram ==
    [NewHeader(2) EXCEPT !.Command = PROXY, !.TransportProtocol = UDPv4,
                         !.SrcAddr = A4b, !.DstAddr = A4, !.SrcPort = 65533, !.DstPort = 80]

ProxiedV2Datagram6 ==
    [NewHeader(2) EXCEPT !.Command = PROXY, !.TransportProtocol = UDPv6,
                         !.SrcAddr = A6c, !.DstAddr = A6b, !.SrcPort = 0, !.DstPort = 65535]

LocalV2 == [NewHeader(2) EXCEPT !.Command = CmdLOCAL]

\* The headers a proxy puts in front of the stream
ProxiedHeaders == {ProxiedV1, ProxiedV2, ProxiedV2Datagram, ProxiedV2Datagram6}

\* What the peer writes, chunk by chunk, before it closes.  Chunks written
\* before the server reads arrive together, so a header sent in two chunks
\* also arrives whole
Scripts ==
    { <<Ping>>,
      <<Take(WriteTo(ProxiedV1).out, 3), Drop(WriteTo(ProxiedV1).out, 3) \o Ping>>,
      <<SIGV1 \o v1Sep \o CRLF \o GET>>,
      <<SIGV2 \o <<153>>, Ping>>,
      <<SIGV2, Drop(WriteTo(ProxiedV2).out, Len(SIGV2)) \o Ping>>,
      <<WriteTo(ProxiedV2Datagram).out, Ping>>,
      <<WriteTo(ProxiedV2Datagram6).out \o Ping>>,
      <<WriteTo(LocalV2).out \o Ping>>,
      <<>>,
      <<Take(SIGV1, 4)>>,
      <<CRLF \o Ping>> }

ConnInit ==
    /\ \E s \in Scripts, t \in {0, 1}, u \in BOOLEAN : NewConn(s, t, u)
    /\ fixture = NoHeader
    /\ phase = "failed"
    /\ input = <<>>
    /\ src = <<>>
    /\ term = "EOF"
    /\ wres = NoWrite
    /\ result = NoResult
    /\ after = <<>>
    /\ NoReadTimeout
    /\ NoListener
    /\ NoForward

\* The peer writes its next chunk
PeerSend ==
    /\ script # <<>>
    /\ ~peerClosed
    /\ wire' = wire \o Head(script)
    /\ sent' = sent \o Head(script)
    /\ script' = Tail(script)
    /\ UNCHANGED <<codecVars, timeoutVars, listenerVars, forwardVars, br, peerClosed, connClosed, deadline, brBuf, header, useConnAddr,
                   proxyHeaderTimeout, once, readHeaderCalls, outcome, pc, op, ran, callErr,
                   ret, ncalls, delivered,
                   headerWait>>

\* The peer closes its end after its last chunk
PeerClose ==
    /\ script = <<>>
    /\ ~peerClosed
    /\ peerClosed' = TRUE
    /\ UNCHANGED <<codecVars, timeoutVars, listenerVars, forwardVars, br, script, sent, wire, connClosed, deadline, brBuf, header,
                   useConnAddr, proxyHeaderTimeout, once, readHeaderCalls, outcome, pc, op,
                   ran, callErr, ret, ncalls, delivered,
                   headerWait>>

\* The read deadline set by readHeader passes
DeadlineExpires ==
    /\ deadline = "armed"
    /\ deadline' = "expired"
    /\ UNCHANGED <<codecVars, timeoutVars, listenerVars, forwardVars, br, script, sent, wire, peerClosed, connClosed, brBuf, header,
                   useConnAddr, proxyHeaderTimeout, once, readHeaderCalls, outcome, pc, op,
                   ran, callErr, ret, ncalls, delivered,
                   headerWait>>

\* A goroutine calls Conn.Read, Conn.LocalAddr or Conn.RemoteAddr.  The
\* goroutines are interchangeable, so they are numbered in the order of their
\* first calls: goroutine c makes its first call after every goroutine with a
\* smaller number has made one.
Call(c) ==
    /\ pc[c] \in {"idle", "returned"}
    /\ \A d \in Callers : d < c => pc[d] # "idle"
    /\ ncalls < MaxCalls
    /\ \E o \in Ops : op' = [op EXCEPT ![c] = o]
    /\ pc' = [pc EXCEPT ![c] = "once"]
    /\ ran' = [ran EXCEPT ![c] = FALSE]
    /\ callErr' = [callErr EXCEPT ![c] = "nil"]
    /\ ret' = [ret EXCEPT ![c] = NoRet]
    /\ ncalls' = ncalls + 1
    /\ UNCHANGED <<codecVars, timeoutVars, listenerVars, forwardVars, br, script, sent, wire, peerClosed, connClosed, deadline, brBuf,
                   header, useConnAddr, proxyHeaderTimeout, once, readHeaderCalls, outcome,
                   delivered,
                   headerWait>>

\* sync.Once.Do that would run f again on every call made while f is not running
OnceMayRunAgain(o) == o # "running"

\* sync.Once.Do runs f only for the first call; calls made while f is running
\* wait for it, later calls skip it
OnceMayRun(o) == o = "fresh"

\* p.once.Do enters f: readHeader starts and, with a timeout configured, sets
\* the read deadline
OnceEnter(c) ==
    /\ pc[c] = "once"
    /\ OnceMayRun(once)
    /\ once' = "running"
    /\ pc' = [pc EXCEPT ![c] = "header"]
    /\ ran' = [ran EXCEPT ![c] = TRUE]
    /\ readHeaderCalls' = readHeaderCalls + 1
    /\ deadline' = IF proxyHeaderTimeout # 0 THEN "armed" ELSE deadline
    /\ UNCHANGED <<codecVars, timeoutVars, listenerVars, forwardVars, br, script, sent, wire, peerClosed, connClosed, brBuf, header,
                   useConnAddr, proxyHeaderTimeout, outcome, op, callErr, ret, ncalls,
                   delivered,
                   headerWait>>

\* p.once.Do returns without running f: it has already run
OnceSkip(c) ==
    /\ pc[c] = "once"
    /\ once = "done"
    /\ pc' = [pc EXCEPT ![c] = "after"]
    /\ UNCHANGED <<codecVars, timeoutVars, listenerVars, forwardVars, br, script, sent, wire, peerClosed, connClosed, deadline, brBuf,
                   header, useConnAddr, proxyHeaderTimeout, once, readHeaderCalls, outcome,
                   op, ran, callErr, ret, ncalls, delivered,
                   headerWait>>

\* What a read of p.conn meets once the buffered bytes run out
connTerm ==
    IF deadline = "expired" THEN "timeout"
    ELSE IF connClosed THEN "EOF"
    ELSE IF wire = <<>> /\ peerClosed THEN "EOF"
    ELSE "more"

\* Read(p.br) waits for bytes and p.br fills itself from p.conn
PullWire(c) ==
    /\ pc[c] = "header"
    /\ wire # <<>>
    /\ connTerm = "more"
    /\ Read(Reader(brBuf, "more")).status = "blocked"
    /\ brBuf' = brBuf \o wire
    /\ wire' = <<>>
    /\ UNCHANGED <<codecVars, timeoutVars, listenerVars, forwardVars, br, script, sent, peerClosed, connClosed, deadline, header,
                   useConnAddr, proxyHeaderTimeout, once, readHeaderCalls, outcome, pc, op,
                   ran, callErr, ret, ncalls, delivered,
                   headerWait>>

\* The error readHeader returns for the error e of Read(p.br)
readHeaderErr(e) == IF e # "nil" /\ e # "ErrNoProxyProtocol" THEN e ELSE "nil"

\* An end of f that leaves the stream of an untrusted connection alone: no
\* header stored, no byte stripped
ResolvedTrustedOnly(c, h, rest, raw, e) ==
    /\ header' = IF useConnAddr THEN NilHeader ELSE h
    /\ outcome' = raw
    /\ deadline' = IF proxyHeaderTimeout # 0 THEN "none" ELSE deadline
    /\ once' = "done"
    /\ pc' = [pc EXCEPT ![c] = "after"]
    /\ IF op[c] = "Read"
       THEN /\ callErr' = [callErr EXCEPT ![c] = IF useConnAddr THEN "nil" ELSE e]
            /\ brBuf' = IF useConnAddr THEN brBuf ELSE rest
            /\ UNCHANGED <<connClosed, br>>
       ELSE /\ UNCHANGED callErr
            /\ IF e # "nil" /\ e # "io.EOF" /\ ~useConnAddr
               THEN connClosed' = TRUE /\ br' = br + 1 /\ brBuf' = <<>>
               ELSE /\ brBuf' = IF useConnAddr THEN brBuf ELSE rest
                    /\ UNCHANGED <<connClosed, br>>

\* An end of f that closes and replaces p.br after a Read's decode error too
ResolvedReplacesOnRead(c, h, rest, raw, e) ==
    /\ header' = h
    /\ outcome' = raw
    /\ deadline' = IF proxyHeaderTimeout # 0 THEN "none" ELSE deadline
    /\ once' = "done"
    /\ pc' = [pc EXCEPT ![c] = "after"]
    /\ IF op[c] = "Read"
       THEN callErr' = [callErr EXCEPT ![c] = e]
       ELSE UNCHANGED callErr
    /\ IF e # "nil" /\ e # "io.EOF"
       THEN connClosed' = TRUE /\ br' = br + 1 /\ brBuf' = <<>>
       ELSE brBuf' = rest /\ UNCHANGED <<connClosed, br>>

\* An end of f that always continues with a fresh reader on p.conn
ResolvedFreshReader(c, h, rest, raw, e) ==
    /\ header' = h
    /\ outcome' = raw
    /\ deadline' = IF proxyHeaderTimeout # 0 THEN "none" ELSE deadline
    /\ once' = "done"
    /\ pc' = [pc EXCEPT ![c] = "after"]
    /\ brBuf' = <<>>
    /\ br' = br + 1
    /\ IF op[c] = "Read"
       THEN callErr' = [callErr EXCEPT ![c] = e] /\ UNCHANGED connClosed
       ELSE /\ UNCHANGED callErr
            /\ connClosed' = (connClosed \/ (e # "nil" /\ e # "io.EOF"))

\* The end of f: readHeader has stored h in p.header, left rest in p.br and
\* returned e; Conn.Read keeps e, readHeaderOnce closes and replaces p.br
Resolved(c, h, rest, raw, e) ==
    /\ header' = h
    /\ outcome' = raw
    /\ deadline' = IF proxyHeaderTimeout # 0 THEN "none" ELSE deadline
    /\ once' = "done"
    /\ pc' = [pc EXCEPT ![c] = "after"]
    /\ IF op[c] = "Read"
       THEN /\ callErr' = [callErr EXCEPT ![c] = e]
            /\ brBuf' = rest
            /\ UNCHANGED <<connClosed, br>>
       ELSE /\ UNCHANGED callErr
            /\ IF e # "nil" /\ e # "io.EOF"
               THEN connClosed' = TRUE /\ br' = br + 1 /\ brBuf' = <<>>
               ELSE brBuf' = rest /\ UNCHANGED <<connClosed, br>>

\* The effect of the outcome r of Read(p.br)
readHeaderReturns(c, r) ==
    /\ r.status = "done"
    /\ Resolved(c, r.hdr, r.rest, r.err, readHeaderErr(r.err))

\* readHeader: p.header, err = Read(p.br), the deferred deadline reset, and
\* the rest of the function passed to p.once.Do
ReadHeader(c) ==
    /\ pc[c] = "header"
    /\ readHeaderReturns(c, Read(Reader(brBuf, connTerm)))
    /\ headerWait' = [how |-> IF Read(Reader(brBuf, "more")).status = "blocked"
                               THEN connTerm ELSE "parsed",
                      silent |-> sent = <<>>]
    /\ UNCHANGED <<codecVars, timeoutVars, listenerVars, forwardVars, script, sent, wire, peerClosed, useConnAddr, proxyHeaderTimeout,
                   readHeaderCalls, op, ran, ret, ncalls, delivered>>

\* Conn.Read: "if err != nil { return 0, err }"
ReadFails(c) ==
    /\ pc[c] = "after"
    /\ op[c] = "Read"
    /\ callErr[c] # "nil"
    /\ ret' = [ret EXCEPT ![c] = [n |-> 0, err |-> callErr[c], addr |-> NoAddr]]
    /\ pc' = [pc EXCEPT ![c] = "returned"]
    /\ UNCHANGED <<codecVars, timeoutVars, listenerVars, forwardVars, br, script, sent, wire, peerClosed, connClosed, deadline, brBuf,
                   header, useConnAddr, proxyHeaderTimeout, once, readHeaderCalls, outcome,
                   op, ran, callErr, ncalls, delivered,
                   headerWait>>

\* p.br.Read(b) hands over the bytes got, leaving left in p.br
Handed(c, got, left, e) ==
    /\ ret' = [ret EXCEPT ![c] = [n |-> Len(got), err |-> e, addr |-> NoAddr]]
    /\ delivered' = delivered \o got
    /\ brBuf' = left
    /\ pc' = [pc EXCEPT ![c] = "returned"]

\* Conn.Read: "return p.br.Read(b)" with len(b) = size.  Buffered bytes are
\* handed over first; an empty buffer is refilled by one read of p.conn
BrRead(c) ==
    /\ pc[c] = "after"
    /\ op[c] = "Read"
    /\ callErr[c] = "nil"
    /\ \E size \in ReadSizes :
         CASE brBuf # <<>> ->
                /\ Handed(c, Take(brBuf, Min(size, Len(brBuf))),
                          Drop(brBuf, Min(size, Len(brBuf))), "nil")
                /\ UNCHANGED wire
           [] brBuf = <<>> /\ connClosed ->
                Handed(c, <<>>, <<>>, "ErrNetClosing") /\ UNCHANGED wire
           [] brBuf = <<>> /\ ~connClosed /\ deadline = "expired" ->
                Handed(c, <<>>, <<>>, "timeout") /\ UNCHANGED wire
           [] brBuf = <<>> /\ ~connClosed /\ deadline # "expired" /\ wire # <<>> ->
                /\ Handed(c, Take(wire, Min(size, Len(wire))),
                          Drop(wire, Min(size, Len(wire))), "nil")
                /\ wire' = <<>>
           [] brBuf = <<>> /\ ~connClosed /\ deadline # "expired" /\ wire = <<>>
              /\ peerClosed ->
                Handed(c, <<>>, <<>>, "io.EOF") /\ UNCHANGED wire
           [] OTHER -> FALSE
    /\ UNCHANGED <<codecVars, timeoutVars, listenerVars, forwardVars, br, script, sent, peerClosed, connClosed, deadline, header,
                   useConnAddr, proxyHeaderTimeout, once, readHeaderCalls, outcome, op, ran,
                   callErr, ncalls,
                   headerWait>>

\* Conn.LocalAddr and Conn.RemoteAddr after readHeaderOnce has returned
AddrReturns(c) ==
    /\ pc[c] = "after"
    /\ op[c] \in {"LocalAddr", "RemoteAddr"}
    /\ ret' = [ret EXCEPT ![c] =
                 [n |-> 0, err |-> "none",
                  addr |-> IF op[c] = "LocalAddr" THEN ConnLocalAddr ELSE ConnRemoteAddr]]
    /\ pc' = [pc EXCEPT ![c] = "returned"]
    /\ UNCHANGED <<codecVars, timeoutVars, listenerVars, forwardVars, br, script, sent, wire, peerClosed, connClosed, deadline, brBuf,
                   header, useConnAddr, proxyHeaderTimeout, once, readHeaderCalls, outcome,
                   op, ran, callErr, ncalls, delivered,
                   headerWait>>

ConnNext ==
    \/ PeerSend
    \/ PeerClose
    \/ DeadlineExpires
    \/ \E c \in Callers : Call(c)
    \/ \E c \in Callers : OnceEnter(c)
    \/ \E c \in Callers : OnceSkip(c)
    \/ \E c \in Callers : PullWire(c)
    \/ \E c \in Callers : ReadHeader(c)
    \/ \E c \in Callers : ReadFails(c)
    \/ \E c \in Callers : BrRead(c)
    \/ \E c \in Callers : AddrReturns(c)

ConnSpec == ConnInit /\ [][ConnNext]_vars

\* Streams of each kind: no header, a v1 header, a v2 header, a v2 LOCAL
\* header, a signature followed by an unknown version, and nothing at all
ResolveScripts ==
    { <<Ping>>,
      <<Take(WriteTo(ProxiedV1).out, 3), Drop(WriteTo(ProxiedV1).out, 3) \o Ping>>,
      <<SIGV2, Drop(WriteTo(ProxiedV2).out, Len(SIGV2)) \o Ping>>,
      <<WriteTo(LocalV2).out \o Ping>>,
      <<SIGV2 \o <<153>>, Ping>>,
      <<>> }

ResolveInit ==
    /\ \E s \in ResolveScripts, t \in {0, 1}, u \in BOOLEAN : NewConn(s, t, u)
    /\ fixture = NoHeader
    /\ phase = "failed"
    /\ input = <<>>
    /\ src = <<>>
    /\ term = "EOF"
    /\ wres = NoWrite
    /\ result = NoResult
    /\ after = <<>>
    /\ NoReadTimeout
    /\ NoListener
    /\ NoForward

\* The Conn of ConnSpec on one stream of each kind
ResolveSpec == ResolveInit /\ [][ConnNext]_vars

\* ------------------------------------------------------------------------
\* Conn.Write, Conn.Close and the deadline setters
\* ------------------------------------------------------------------------

\* The number of forwarded calls
MaxForwards == 2

\* The times a caller passes to a deadline setter: the zero time ("none") or
\* a time far ahead ("caller")
Deadlines == {"none", "caller"}

\* What the server writes back
Pong == <<112, 111, 110, 103>>

\* The peers of the connections the forwarded calls are made on
ForwardScripts ==
    { <<Ping>>,
      <<Take(WriteTo(ProxiedV1).out, 3), Drop(WriteTo(ProxiedV1).out, 3) \o Ping>>,
      <<SIGV2 \o <<153>>, Ping>>,
      <<>> }

ForwardInit ==
    /\ \E s \in ForwardScripts, t \in {0, 1} : NewConn(s, t, FALSE)
    /\ written = <<>>
    /\ writeDeadline = "none"
    /\ forwardRet = "none"
    /\ nforward = 0
    /\ earlyDeadline = "none"
    /\ fixture = NoHeader
    /\ phase = "failed"
    /\ input = <<>>
    /\ src = <<>>
    /\ term = "EOF"
    /\ wres = NoWrite
    /\ result = NoResult
    /\ after = <<>>
    /\ NoReadTimeout
    /\ NoListener

\* A forwarded call that first runs the header resolution to 'no header'
ForwardedAfterResolving ==
    /\ nforward < MaxForwards
    /\ nforward' = nforward + 1
    /\ forwardRet' = IF connClosed THEN "ErrNetClosing" ELSE "nil"
    /\ once' = "done"
    /\ outcome' = "ErrNoProxyProtocol"
    /\ UNCHANGED <<codecVars, timeoutVars, listenerVars, br, script, sent, wire, peerClosed,
                   brBuf, header, useConnAddr, proxyHeaderTimeout,
                   readHeaderCalls, pc, op, ran, callErr, ret, ncalls, delivered,
                   headerWait>>

\* "return p.conn.X(...)": the call goes to p.conn, whose error comes back (a
\* closed socket refuses every call), and nothing else of the Conn is touched
Forwarded ==
    /\ nforward < MaxForwards
    /\ nforward' = nforward + 1
    /\ forwardRet' = IF connClosed THEN "ErrNetClosing" ELSE "nil"
    /\ UNCHANGED <<codecVars, timeoutVars, listenerVars, br, script, sent, wire, peerClosed,
                   brBuf, header, useConnAddr, proxyHeaderTimeout, once,
                   readHeaderCalls, outcome, pc, op, ran, callErr, ret, ncalls, delivered,
                   headerWait>>

\* Conn.Write
Write(b) ==
    /\ Forwarded
    /\ written' = IF connClosed THEN written ELSE written \o b
    /\ UNCHANGED <<connClosed, deadline, writeDeadline, earlyDeadline>>

\* Conn.Close
Close ==
    /\ Forwarded
    /\ connClosed' = TRUE
    /\ UNCHANGED <<written, deadline, writeDeadline, earlyDeadline>>

\* A read deadline t has been passed to the socket
Installed(t) ==
    earlyDeadline' = IF connClosed THEN earlyDeadline
                     ELSE IF ncalls = 0 THEN t ELSE "changed"

\* Conn.SetDeadline
SetDeadline(t) ==
    /\ Forwarded
    /\ Installed(t)
    /\ deadline' = IF connClosed THEN deadline ELSE t
    /\ writeDeadline' = IF connClosed THEN writeDeadline ELSE t
    /\ UNCHANGED <<written, connClosed>>

\* Conn.SetReadDeadline
SetReadDeadline(t) ==
    /\ Forwarded
    /\ Installed(t)
    /\ deadline' = IF connClosed THEN deadline ELSE t
    /\ UNCHANGED <<written, connClosed, writeDeadline>>

\* Conn.SetWriteDeadline
SetWriteDeadline(t) ==
    /\ Forwarded
    /\ writeDeadline' = IF connClosed THEN writeDeadline ELSE t
    /\ UNCHANGED <<written, connClosed, deadline, earlyDeadline>>

\* One goroutine calls Read and the accessors; the forwarded calls come from
\* anywhere, at any moment
ForwardNext ==
    \/ PeerSend
    \/ PeerClose
    \/ DeadlineExpires
    \/ Call(1)
    \/ OnceEnter(1)
    \/ OnceSkip(1)
    \/ PullWire(1)
    \/ ReadHeader(1)
    \/ ReadFails(1)
    \/ BrRead(1)
    \/ AddrReturns(1)
    \/ Write(Pong)
    \/ Close
    \/ \E t \in Deadlines : SetDeadline(t)
    \/ \E t \in Deadlines : SetReadDeadline(t)
    \/ \E t \in Deadlines : SetWriteDeadline(t)

ForwardSpec == ForwardInit /\ [][ForwardNext]_vars

\* ------------------------------------------------------------------------
\* A peer that sends a short payload and then waits
\* ------------------------------------------------------------------------

\* "PING"
PING == <<80, 73, 78, 71>>

\* Payloads that are no header, sent whole or in two chunks by a peer that
\* then keeps the connection open, and a malformed header
WaitingScripts ==
    { <<PING>>,
      <<SIGV1 \o v1Sep \o CRLF \o GET>>,
      <<Take(PING, 2), Drop(PING, 2)>>,
      <<Ping>>,
      <<GET>>,
      <<CRLF \o Ping>>,
      <<Take(GET, 1), Drop(GET, 1)>> }

ProgressInit ==
    /\ \E s \in WaitingScripts, u \in BOOLEAN : NewConn(s, 0, u)
    /\ fixture = NoHeader
    /\ phase = "failed"
    /\ input = <<>>
    /\ src = <<>>
    /\ term = "EOF"
    /\ wres = NoWrite
    /\ result = NoResult
    /\ after = <<>>
    /\ NoReadTimeout
    /\ NoListener
    /\ NoForward

\* What the goroutine calling the Conn does once it has made a call
Running(c) ==
    \/ OnceEnter(c)
    \/ OnceSkip(c)
    \/ PullWire(c)
    \/ ReadHeader(c)
    \/ ReadFails(c)
    \/ BrRead(c)
    \/ AddrReturns(c)

\* The peer never closes and no deadline is set
ProgressNext ==
    \/ PeerSend
    \/ Call(1)
    \/ Running(1)

\* The peer sends what it has to send, and a goroutine that can take a step
\* takes it
ProgressSpec ==
    ProgressInit /\ [][ProgressNext]_vars /\ WF_vars(PeerSend) /\ WF_vars(Running(1))

\* ------------------------------------------------------------------------
\* ReadTimeout: Read raced against a timer
\* ------------------------------------------------------------------------

\* Where the source's bytes may be cut into an early and a late chunk
Cuts == {0, 3, 12}

TimeoutInputs == RawInputs \cup {WriteTo(h).out \o Ping : h \in ProxiedHeaders}

\* The source of the reader: b delivered in two chunks cut at k
ChunkedSource(b, k) ==
    /\ tAvail = <<>>
    /\ tPending = <<Take(b, Min(k, Len(b))), Drop(b, Min(k, Len(b)))>>

TimeoutInit ==
    /\ \E b \in TimeoutInputs, k \in Cuts : ChunkedSource(b, k)
    /\ tEnded = FALSE
    /\ tMain = "start"
    /\ timer = "none"
    /\ readCh = NoResult
    /\ tRet = NoResult
    /\ fixture = NoHeader
    /\ phase = "failed"
    /\ input = <<>>
    /\ src = <<>>
    /\ term = "EOF"
    /\ wres = NoWrite
    /\ result = NoResult
    /\ after = <<>>
    /\ NewConn(<<>>, 0, FALSE)
    /\ NoListener
    /\ NoForward

\* The source delivers its next chunk
SourceDelivers ==
    /\ tPending # <<>>
    /\ tAvail' = tAvail \o Head(tPending)
    /\ tPending' = Tail(tPending)
    /\ UNCHANGED <<codecVars, connVars, listenerVars, forwardVars, tEnded, tMain, timer, readCh, tRet>>

\* The source reports its end once everything is delivered; a source that
\* never does stays silent for ever
SourceEnds ==
    /\ tPending = <<>>
    /\ ~tEnded
    /\ tEnded' = TRUE
    /\ UNCHANGED <<codecVars, connVars, listenerVars, forwardVars, tAvail, tPending, tMain, timer, readCh,
                   tRet>>

\* ReadTimeout up to its select: the goroutine running Read is started, the
\* timer is created with a positive duration and the caller blocks in select
CallReadTimeout ==
    /\ tMain = "start"
    /\ tMain' = "select"
    /\ timer' = "running"
    /\ UNCHANGED <<codecVars, connVars, listenerVars, forwardVars, tAvail, tPending, tEnded, readCh, tRet>>

\* "case <-timer.C" returning an error of its own
TimerCaseError == [hdr |-> NilHeader, err |-> "ErrTimeout"]

\* "case <-timer.C: return nil, ErrNoProxyProtocol"
TimerCase == [hdr |-> NilHeader, err |-> "ErrNoProxyProtocol"]

\* What a read of the source meets once the delivered bytes run out
sourceTerm == IF tPending = <<>> /\ tEnded THEN "EOF" ELSE "more"

\* The goroutine's Read has returned r and sent it on the channel; a caller
\* still blocked in select receives it, stops the timer and returns it
GoroutineSends(r) ==
    /\ r.status = "done"
    /\ readCh' = [hdr |-> r.hdr, err |-> r.err]
    /\ tAvail' = r.rest
    /\ IF tMain = "select"
       THEN /\ tMain' = "returned"
            /\ timer' = "stopped"
            /\ tRet' = [hdr |-> r.hdr, err |-> r.err]
       ELSE UNCHANGED <<tMain, timer, tRet>>

\* The goroutine: h.h, h.e = Read(reader); read <- h
ReadInGoroutine ==
    /\ tMain # "start"
    /\ readCh = NoResult
    /\ GoroutineSends(Read(Reader(tAvail, sourceTerm)))
    /\ UNCHANGED <<codecVars, connVars, listenerVars, forwardVars, tPending, tEnded>>

\* The timer fires while the caller is blocked in select
TimerFires ==
    /\ timer = "running"
    /\ timer' = "fired"
    /\ tMain' = "returned"
    /\ tRet' = TimerCase
    /\ UNCHANGED <<codecVars, connVars, listenerVars, forwardVars, tAvail, tPending, tEnded, readCh>>

TimeoutNext ==
    \/ SourceDelivers
    \/ SourceEnds
    \/ CallReadTimeout
    \/ ReadInGoroutine
    \/ TimerFires

TimeoutSpec == TimeoutInit /\ [][TimeoutNext]_vars

\* A timer started by time.NewTimer fires once its duration has elapsed
TimeoutLiveSpec == TimeoutSpec /\ WF_vars(TimerFires)

\* What ReadTimeout has returned, by the case of the select that was taken
ReadTimeoutReturns ==
    /\ tMain = "returned" => timer \in {"stopped", "fired"}
    /\ timer = "stopped" => tMain = "returned" /\ readCh # NoResult /\ tRet = readCh
    /\ timer = "fired" =>
          /\ tMain = "returned"
          /\ tRet = [hdr |-> NilHeader, err |-> "ErrNoProxyProtocol"]
    /\ (tMain = "select") => readCh = NoResult

MaxAccepts == 2

\* What a SourceChecker may answer: (true, nil), (false, nil) or an error
Answers == {"trusted", "untrusted", "error"}

SourceChecks == {NoSourceCheck} \cup {[set |-> TRUE, answer |-> f] : f \in [Peers -> Answers]}

\* What the underlying listener's Accept may return: a connection from a
\* peer, or an error
UnderlyingResults ==
    {[peer |-> a, err |-> "nil"] : a \in Peers} \cup {[peer |-> NoAddr, err |-> "ErrAccept"]}

ListenerInit ==
    /\ ProxyHeaderTimeout \in {0, 1}
    /\ SourceCheck \in SourceChecks
    /\ underlying = <<>>
    /\ checked = <<>>
    /\ acceptRet = NoAccept
    /\ rawClosed = {}
    /\ fixture = NoHeader
    /\ phase = "failed"
    /\ input = <<>>
    /\ src = <<>>
    /\ term = "EOF"
    /\ wres = NoWrite
    /\ result = NoResult
    /\ after = <<>>
    /\ NewConn(<<>>, 0, FALSE)
    /\ NoReadTimeout
    /\ NoForward

\* "if !allowed { useConnAddr = true }" with the test inverted
DistrustedInverted(answer) == answer = "trusted"

\* "if !allowed { useConnAddr = true }"
Distrusted(answer) == answer = "untrusted"

\* NewConn(conn, p.ProxyHeaderTimeout) with useConnAddr set
AcceptedConn(peer, useConn) ==
    [conn |-> [remote |-> peer, proxyHeaderTimeout |-> ProxyHeaderTimeout,
               useConnAddr |-> useConn],
     err |-> "nil"]

\* Accept after the underlying listener has returned u.  No path of Accept
\* calls conn.Close()
AcceptReturns(u) ==
    /\ underlying' = Append(underlying, u)
    /\ UNCHANGED rawClosed
    /\ IF u.err # "nil"
       THEN /\ acceptRet' = [conn |-> NoConn, err |-> u.err]
            /\ UNCHANGED checked
       ELSE IF SourceCheck.set
       THEN /\ checked' = Append(checked, u.peer)
            /\ acceptRet' = IF SourceCheck.answer[u.peer] = "error"
                            THEN [conn |-> NoConn, err |-> "ErrInvalidUpstream"]
                            ELSE AcceptedConn(u.peer, Distrusted(SourceCheck.answer[u.peer]))
       ELSE /\ acceptRet' = AcceptedConn(u.peer, FALSE)
            /\ UNCHANGED checked

\* Listener.Accept
Accept ==
    /\ Len(underlying) < MaxAccepts
    /\ \E u \in UnderlyingResults : AcceptReturns(u)
    /\ UNCHANGED <<codecVars, connVars, timeoutVars, forwardVars, ProxyHeaderTimeout, SourceCheck>>

ListenerNext == Accept

ListenerSpec == ListenerInit /\ [][ListenerNext]_vars

LastUnderlying == underlying[Len(underlying)]

Succeeded == {i \in 1..Len(underlying) : underlying[i].err = "nil"}

\* What the trust function says of the last accepted connection
LastAnswer ==
    IF SourceCheck.set THEN SourceCheck.answer[LastUnderlying.peer] ELSE "none"

\* C20: Accept returns the underlying listener's error when the underlying
\* accept fails; a configured trust function is called once per accepted
\* connection, with the raw peer address; if it returns an error Accept
\* returns that error and no connection; if it answers untrusted the Conn
\* returned has useConnAddr set; if it answers trusted, or none is
\* configured, it has not; every Conn returned carries the listener's timeout.
C20_Accept ==
    /\ Len(checked) =
          IF SourceCheck.set THEN Cardinality(Succeeded) ELSE 0
    /\ underlying # <<>> =>
          /\ LastUnderlying.err # "nil" =>
                acceptRet = [conn |-> NoConn, err |-> LastUnderlying.err]
          /\ LastUnderlying.err = "nil" =>
                /\ SourceCheck.set => checked[Len(checked)] = LastUnderlying.peer
                /\ LastAnswer = "error" =>
                      acceptRet = [conn |-> NoConn, err |-> "ErrInvalidUpstream"]
                /\ LastAnswer = "untrusted" =>
                      acceptRet.err = "nil" /\ acceptRet.conn.useConnAddr
                /\ LastAnswer \in {"trusted", "none"} =>
                      acceptRet.err = "nil" /\ ~acceptRet.conn.useConnAddr
          /\ acceptRet.err = "nil" =>
                /\ acceptRet.conn.proxyHeaderTimeout = ProxyHeaderTimeout
                /\ acceptRet.conn.remote = LastUnderlying.peer

C20_Witness ==
    /\ Len(underlying) = MaxAccepts
    /\ SourceCheck.set
    /\ LastUnderlying.err = "nil"
    /\ LastAnswer = "untrusted"
    /\ ProxyHeaderTimeout = 1
    /\ acceptRet.conn.useConnAddr
    /\ Len(checked) = MaxAccepts


\* ------------------------------------------------------------------------
\* Properties of the codec (checked under CodecSpec)
\* ------------------------------------------------------------------------

ReadBack == phase \in {"parsed", "drained"} /\ fixture.kind = "header"

\* Equal in transport protocol, addresses and ports
SameAddressing(g, h) ==
    /\ g.TransportProtocol = h.TransportProtocol
    /\ IPEqual(g.SrcAddr, h.SrcAddr)
    /\ IPEqual(g.DstAddr, h.DstAddr)
    /\ g.SrcPort = h.SrcPort
    /\ g.DstPort = h.DstPort

SameHeader(g, h) ==
    /\ g.Version = h.Version
    /\ g.Command = h.Command
    /\ SameAddressing(g, h)

ReadsBackAs(h, g, err) ==
    CASE h.Version = 2 /\ h.Command = PROXY ->
           err = "nil" /\ g # NilHeader /\ SameHeader(g, h)
      [] h.Version = 2 /\ h.Command = CmdLOCAL ->
           err = "nil" /\ g = [NewHeader(2) EXCEPT !.Command = CmdLOCAL]
      [] h.Version = 1 /\ h.TransportProtocol \in {TCPv4, TCPv6} ->
           err = "nil" /\ g # NilHeader /\ g.Version = 1 /\ g.Command = 0 /\ SameAddressing(g, h)
      [] OTHER -> err = "ErrInvalidAddress" /\ g = NilHeader

TestedHeader(h) ==
    /\ ValidHeader(h)
    /\ \/ h.Version = 1 /\ h.TransportProtocol \in {TCPv4, TCPv6}
       \/ h.Version = 2 /\ h.Command = PROXY

\* C2: a version-1 TCPv4/TCPv6 header, or a version-2 PROXY header of any of
\* the four protocols, is read back without error with the same transport
\* protocol, the same source and destination address (compared as text, as
\* assertHeader does) and the same ports.
C2_TestedRoundTrip ==
    (ReadBack /\ TestedHeader(fixture.h)) =>
        /\ result.err = "nil"
        /\ result.hdr # NilHeader
        /\ result.hdr.TransportProtocol = fixture.h.TransportProtocol
        /\ IPString(result.hdr.SrcAddr) = IPString(fixture.h.SrcAddr)
        /\ IPString(result.hdr.DstAddr) = IPString(fixture.h.DstAddr)
        /\ result.hdr.SrcPort = fixture.h.SrcPort
        /\ result.hdr.DstPort = fixture.h.DstPort

C2_Witness ==
    /\ ReadBack /\ TestedHeader(fixture.h)
    /\ fixture.h.Version = 1 /\ fixture.h.TransportProtocol = TCPv6
    /\ fixture.h.DstPort = 65535
    /\ result.err = "nil"

\* C3: whenever Read returns ErrNoProxyProtocol it has consumed nothing: the
\* buffered source still holds the original bytes, and reading it on yields
\* them from the first byte.
C3_NoProxyConsumesNothing ==
    (result.err = "ErrNoProxyProtocol") =>
        /\ phase = "parsed" => src = input
        /\ phase = "drained" => after = input

C3_Witness ==
    /\ phase = "drained"
    /\ result.err = "ErrNoProxyProtocol"
    /\ Len(input) >= 5
    /\ input[1] = SIGV2[1]
    /\ after = input

BeginsWithSignature(b) == HasPrefix(b, SIGV1) \/ HasPrefix(b, SIGV2)

\* The (header, error) a parser's outcome carries
Outcome(r) == [hdr |-> r.hdr, err |-> r.err]

\* C4: Read returns ErrNoProxyProtocol exactly when the source begins with
\* neither complete signature; an input that begins with the text signature
\* gets the v1 parser's result, one that begins with the binary signature the
\* v2 parser's, and neither of those is ErrNoProxyProtocol.
C4_Dispatch ==
    (phase \in {"parsed", "drained"}) =>
        /\ (result.err = "ErrNoProxyProtocol") <=> ~BeginsWithSignature(input)
        /\ HasPrefix(input, SIGV1) => result = Outcome(parseVersion1(Reader(input, term)))
        /\ HasPrefix(input, SIGV2) => result = Outcome(parseVersion2(Reader(input, term)))

C4_Witness ==
    /\ phase = "parsed"
    /\ HasPrefix(input, SIGV1)
    /\ Len(input) < Len(SIGV2)
    /\ result.err = "ErrCantReadProtocolVersionAndCommand"

\* C5 as claimed: a v2 PROXY header whose length field is any L above the
\* family minimum, followed by L bytes and a trailer, parses to the header of
\* the unpadded case and leaves exactly the trailer in the source.
C5_PaddingDrain ==
    (phase = "parsed" /\ fixture.kind = "padded") =>
        /\ result.err = "nil"
        /\ result.hdr = fixture.h
        /\ src = fixture.trailer

\* ------------------------------------------------------------------------
\* Properties of Conn (checked under ConnSpec)
\* ------------------------------------------------------------------------

Returned(c) == pc[c] = "returned"

\* The resolution has ended in a decode error other than ErrNoProxyProtocol
Fatal == outcome \notin {"pending", "nil", "ErrNoProxyProtocol"}

\* C6: whatever the interleaving of Read, LocalAddr and RemoteAddr calls,
\* readHeader is entered at most once; once it has completed it has run
\* exactly once; and no call gets past p.once.Do, let alone returns, before
\* it has completed.
C6_ExactlyOnce ==
    /\ readHeaderCalls <= 1
    /\ once = "done" => readHeaderCalls = 1 /\ outcome # "pending"
    /\ \A c \in Callers : pc[c] \in {"after", "returned"} => once = "done"

C6_Witness ==
    /\ \A c \in Callers : Returned(c)
    /\ ncalls = MaxCalls
    /\ \E c \in Callers : op[c] = "Read"
    /\ \E c \in Callers : op[c] = "RemoteAddr"
    /\ readHeaderCalls = 1
    /\ Fatal

\* C7 as claimed: once the resolution has ended in a fatal decode error,
\* every Read that has returned (the triggering one, a racing one, a later
\* one) returned an error and no bytes.
C7_EveryReadFails ==
    Fatal =>
        \A c \in Callers :
            (Returned(c) /\ op[c] = "Read") => (ret[c].n = 0 /\ ret[c].err # "nil")

\* C8 as claimed: a Read that triggered the resolution and met a fatal decode
\* error returns 0 bytes and that error, and the underlying connection is
\* closed by the time it returns.
C8_FatalReadCloses ==
    \A c \in Callers :
        (Returned(c) /\ op[c] = "Read" /\ ran[c] /\ Fatal) =>
            /\ ret[c].n = 0
            /\ ret[c].err = outcome
            /\ connClosed

\* C9 as claimed: when the resolution found no signature, Read reports no
\* error and delivers the peer's bytes unchanged from the first byte sent, and
\* LocalAddr and RemoteAddr return the underlying connection's addresses.
C9_PassThrough ==
    (outcome = "ErrNoProxyProtocol") =>
        /\ HasPrefix(sent, delivered)
        /\ \A c \in Callers :
             Returned(c) =>
                 /\ op[c] = "Read" => ret[c].err \in {"nil", "io.EOF"}
                 /\ op[c] = "LocalAddr" => ret[c].addr = SockLocalAddr
                 /\ op[c] = "RemoteAddr" => ret[c].addr = SockRemoteAddr

\* C10 as claimed: LocalAddr and RemoteAddr always return an address without
\* crashing, and after a resolution that ended in a decode error they return
\* the underlying connection's addresses.
C10_AccessorsNeverFail ==
    \A c \in Callers :
        (Returned(c) /\ op[c] \in {"LocalAddr", "RemoteAddr"}) =>
            /\ ret[c].addr # Panic
            /\ Fatal => ret[c].addr = IF op[c] = "LocalAddr" THEN SockLocalAddr
                                                              ELSE SockRemoteAddr

\* The socket's address an accessor falls back to
SockAddr(o) == IF o = "LocalAddr" THEN SockLocalAddr ELSE SockRemoteAddr

AccessorReturned(c) == Returned(c) /\ op[c] \in {"LocalAddr", "RemoteAddr"}

\* C11 as claimed: on a Conn accepted as untrusted, LocalAddr and RemoteAddr
\* return the underlying connection's addresses whatever the stream holds.
C11_TrustOverride ==
    useConnAddr => \A c \in Callers : AccessorReturned(c) => ret[c].addr = SockAddr(op[c])

\* The address the claim expects an accessor to project from header h
Projected(o, h) ==
    [type |-> IF h.TransportProtocol \in {TCPv4, TCPv6} THEN "TCPAddr" ELSE "UDPAddr",
     IP   |-> IF o = "LocalAddr" THEN h.DstAddr ELSE h.SrcAddr,
     Port |-> IF o = "LocalAddr" THEN h.DstPort ELSE h.SrcPort]

SameAddr(a, b) == a.type = b.type /\ IPEqual(a.IP, b.IP) /\ a.Port = b.Port

\* C12: on a trusted Conn whose stream begins with a valid v1 header or a
\* valid v2 PROXY header, once the resolution has read that header,
\* RemoteAddr returns the header's source address and port and LocalAddr its
\* destination address and port, as a TCP address for TCPv4/TCPv6 and as a
\* UDP address for UDPv4/UDPv6.
C12_HeaderProjection ==
    \A c \in Callers, h \in ProxiedHeaders :
        (AccessorReturned(c) /\ ~useConnAddr /\ outcome = "nil"
         /\ HasPrefix(sent, WriteTo(h).out)) =>
            SameAddr(ret[c].addr, Projected(op[c], h))

C12_Witness ==
    \E c \in Callers :
        /\ AccessorReturned(c) /\ op[c] = "RemoteAddr"
        /\ ~useConnAddr /\ outcome = "nil"
        /\ HasPrefix(sent, WriteTo(ProxiedV2Datagram6).out)
        /\ ret[c].addr.type = "UDPAddr"

\* ------------------------------------------------------------------------
\* Properties of the v2 codec (checked under CodecSpec)
\* ------------------------------------------------------------------------

AfterRead == phase \in {"parsed", "drained"}

\* What is left of the input after Read, read on or not
Remaining == IF phase = "drained" THEN after ELSE src

LocalHeader ==
    [Version |-> 2, SrcAddr |-> <<>>, DstAddr |-> <<>>, SrcPort |-> 0, DstPort |-> 0,
     Command |-> 32, TransportProtocol |-> 0]

LocalTestInput ==
    \/ fixture.kind = "raw" /\ input = SIGV2 \o <<32, 0, 0, 12>> \o Fill(12, 1)
    \/ fixture.kind = "header" /\ fixture.h.Version = 2 /\ fixture.h.Command = CmdLOCAL

BigEndian16(v) == <<v \div 256, v % 256>>

\* The raw bytes of an address of the protocol's family
RawAddr(proto, a) ==
    IF proto \in {TCPv4, UDPv4} THEN SubSeq(a, Len(a) - 3, Len(a)) ELSE a

\* The layout the claim gives for a v2 PROXY header
V2Layout(h) ==
    SIGV2 \o <<33, h.TransportProtocol>>
          \o <<0, IF h.TransportProtocol \in {TCPv4, UDPv4} THEN 12 ELSE 36>>
          \o RawAddr(h.TransportProtocol, h.SrcAddr) \o RawAddr(h.TransportProtocol, h.DstAddr)
          \o BigEndian16(h.SrcPort) \o BigEndian16(h.DstPort)

\* C15: for a version-2 Header WriteTo emits exactly the signature and the
\* byte 0x20 when the command is LOCAL, whatever the other fields hold; for a
\* valid PROXY header it emits signature, 0x21, family byte, big-endian length
\* 12 or 36, raw source and destination address and big-endian ports, 28 or
\* 52 bytes in all; it returns the number of bytes emitted.
C15_V2WireLayout ==
    (fixture.kind = "header" /\ phase \in {"bytes", "parsed", "drained"}
     /\ fixture.h.Version = 2) =>
        /\ wres.err = "nil"
        /\ wres.n = Len(input)
        /\ fixture.h.Command = CmdLOCAL => input = SIGV2 \o <<32>>
        /\ (fixture.h.Command = PROXY /\ ValidHeader(fixture.h)) =>
              /\ input = V2Layout(fixture.h)
              /\ Len(input) = IF fixture.h.TransportProtocol \in {TCPv4, UDPv4} THEN 28 ELSE 52

C15_Witness ==
    /\ phase = "bytes" /\ fixture.kind = "header"
    /\ fixture.h.Version = 2 /\ fixture.h.Command = PROXY
    /\ fixture.h.TransportProtocol = UDPv6 /\ ValidHeader(fixture.h)
    /\ fixture.h.SrcPort = 443
    /\ wres.n = 52

\* ------------------------------------------------------------------------
\* Properties of the header timeout (checked under ConnSpec)
\* ------------------------------------------------------------------------

\* The header wait of a Conn with a timeout was ended by the read deadline
TimedOut == proxyHeaderTimeout # 0 /\ headerWait.how = "timeout"

ReadReturned(c) == Returned(c) /\ op[c] = "Read"

\* Read calls surface no error and hand over the peer's bytes from the first
PlainPassThrough ==
    /\ HasPrefix(sent, delivered)
    /\ \A c \in Callers : ReadReturned(c) => ret[c].err \in {"nil", "io.EOF"}

\* C16 as claimed: when the peer of a Conn with a header timeout has sent
\* nothing by the time the timeout elapses, the outcome is 'no header' (no
\* error surfaced, connection not closed), the accessors return the underlying
\* connection's addresses, and Read delivers what the peer sends afterwards.
C16_SilentPeerTimeout ==
    (TimedOut /\ headerWait.silent) =>
        /\ outcome = "ErrNoProxyProtocol"
        /\ ~connClosed
        /\ PlainPassThrough
        /\ \A c \in Callers : AccessorReturned(c) => ret[c].addr = SockAddr(op[c])

\* C17 as claimed: when the timeout elapses at whatever point of the header
\* parse, the outcome is 'no header': no error is returned to Read, the
\* connection is not closed and it behaves as a plain pass-through.
C17_TimeoutAnywhere ==
    TimedOut =>
        /\ outcome = "ErrNoProxyProtocol"
        /\ ~connClosed
        /\ PlainPassThrough

\* C19 as claimed: after the header wait has ended by timeout, the bytes the
\* Read calls return are the bytes the peer sent, in order, none lost and
\* none delivered twice.
C19_NoLossAcrossTimeout ==
    TimedOut => HasPrefix(sent, delivered)

\* ------------------------------------------------------------------------
\* Properties of Read on malformed input (checked under ParseSpec)
\* ------------------------------------------------------------------------

\* The first line of the input, up to and including its LF (<<>> without LF)
FirstLine == Take(input, IndexByte(input, 10))

\* The input begins with the text signature
BeginsWithPROXY == Len(input) >= 5 /\ SubSeq(input, 1, 5) = <<80, 82, 79, 88, 89>>

\* The input is a whole v1 line: text signature, CRLF at the end of the first
\* line
IsV1Line ==
    /\ BeginsWithPROXY
    /\ Len(FirstLine) >= 2
    /\ FirstLine[Len(FirstLine) - 1] = 13
    /\ FirstLine[Len(FirstLine)] = 10

\* The tokens of the first line without its CRLF
V1Tokens == Split(Take(FirstLine, Len(FirstLine) - 2), 32)

\* The input is a v1 header: a whole line of at least 6 tokens
IsV1Header == IsV1Line /\ Len(V1Tokens) >= 6

\* The token is the decimal text of an integer in 0..65535
IsPortText(t) ==
    /\ t # <<>>
    /\ Len(t) <= 5
    /\ \A i \in 1..Len(t) : t[i] \in 48..57
    /\ t = Itoa(DecVal(t, 0))
    /\ DecVal(t, 0) <= 65535

\* The tokens say TCP4 with two dotted-quad addresses, or TCP6 with two
\* addresses in colon notation that are not IPv4-mapped
V1AddressesAgree(t) ==
    \/ t[2] = TCP4 /\ \A i \in {3, 4} : t[i] = Txt4
    \/ t[2] = TCP6 /\ \A i \in {3, 4} : t[i] \in {Txt6, IPString(A6b)}

\* The outcome the claim gives for a v1 header whose addresses are fine
PortOutcome(t) ==
    IF IsPortText(t[5]) /\ IsPortText(t[6])
    THEN /\ result.err = "nil"
         /\ result.hdr # NilHeader
         /\ result.hdr.SrcPort = DecVal(t[5], 0)
         /\ result.hdr.DstPort = DecVal(t[6], 0)
    ELSE result.err = "ErrInvalidPortNumber"

\* C21: in a v1 header whose protocol token and addresses agree, port tokens
\* that are the decimal text of an integer in 0..65535 parse to that integer,
\* and any other port token (negative, above 65535, not a number) makes Read
\* fail with ErrInvalidPortNumber.
C21_V1PortBounds ==
    (AfterRead /\ IsV1Header /\ V1AddressesAgree(V1Tokens)) => PortOutcome(V1Tokens)

\* The token is an IP literal in colon notation
IsV6Literal(t) == (\E i \in 1..Len(t) : t[i] = 58) /\ ParseIP(t) # <<>>

\* The token is an IP literal in dotted-quad notation
IsV4Literal(t) == (\A i \in 1..Len(t) : t[i] # 58) /\ ParseIP(t) # <<>>

\* The address the token stands for has an IPv4 form: a dotted quad, or an
\* IPv4-mapped IPv6 literal
HasV4Form(t) == To4(ParseIP(t)) # <<>>

\* C22 as claimed: a v1 header with token TCP4 and an IPv6 literal as source
\* or destination, or token TCP6 and an IPv4 literal, fails with
\* ErrInvalidAddress; so does every v1 header with another protocol token.
C22_FamilyByNotation ==
    (AfterRead /\ IsV1Header) =>
        /\ (V1Tokens[2] = TCP4 /\ \E i \in {3, 4} : IsV6Literal(V1Tokens[i])) =>
              result.err = "ErrInvalidAddress"
        /\ (V1Tokens[2] = TCP6 /\ \E i \in {3, 4} : IsV4Literal(V1Tokens[i])) =>
              result.err = "ErrInvalidAddress"
        /\ V1Tokens[2] \notin {TCP4, TCP6} => result.err = "ErrInvalidAddress"

\* C22 amended: the family of an address is whether it has an IPv4 form.  A
\* v1 header with token TCP4 and a source or destination that is an IP
\* literal without IPv4 form, or token TCP6 and a source or destination with
\* an IPv4 form (a dotted quad or an IPv4-mapped IPv6 literal), fails with
\* ErrInvalidAddress; so does every v1 header with another protocol token.
C22_FamilyAgreement ==
    (AfterRead /\ IsV1Header) =>
        /\ (V1Tokens[2] = TCP4 /\ \E i \in {3, 4} : IsV6Literal(V1Tokens[i]) /\ ~HasV4Form(V1Tokens[i])) =>
              result.err = "ErrInvalidAddress"
        /\ (V1Tokens[2] = TCP6 /\ \E i \in {3, 4} : HasV4Form(V1Tokens[i])) =>
              result.err = "ErrInvalidAddress"
        /\ V1Tokens[2] \notin {TCP4, TCP6} => result.err = "ErrInvalidAddress"

C22_Witness ==
    /\ AfterRead
    /\ IsV1Header
    /\ V1Tokens[2] = TCP6
    /\ V1Tokens[3] = Txt6
    /\ V1Tokens[4] = Txt4
    /\ result.err = "ErrInvalidAddress"

\* C23: a v1 header with token TCP4 or TCP6 whose source or destination
\* address token is not a textual IP literal fails with ErrInvalidAddress, and
\* a v1 header that parses carries two non-empty addresses of the declared
\* family.
C23_UnparsableAddress ==
    (AfterRead /\ IsV1Header /\ V1Tokens[2] \in {TCP4, TCP6}) =>
        /\ (\E i \in {3, 4} : ParseIP(V1Tokens[i]) = <<>>) => result.err = "ErrInvalidAddress"
        /\ result.err = "nil" =>
              /\ result.hdr.SrcAddr # <<>>
              /\ result.hdr.DstAddr # <<>>
              /\ FamilyMatches(result.hdr.TransportProtocol, result.hdr.SrcAddr)
              /\ FamilyMatches(result.hdr.TransportProtocol, result.hdr.DstAddr)

\* C24: an input that begins with the text signature and whose first line
\* does not end with CRLF (the stream ends before any LF, or the line ends
\* with a bare LF), or whose line without the CRLF splits on single spaces
\* into fewer than 6 tokens, fails with ErrCantReadProtocolVersionAndCommand,
\* whatever its address and port tokens are.
C24_V1Structure ==
    (AfterRead /\ BeginsWithPROXY /\ ~IsV1Header) =>
        result = [hdr |-> NilHeader, err |-> "ErrCantReadProtocolVersionAndCommand"]

C24_Witness ==
    /\ AfterRead
    /\ input = Take(WholeV1Line, Len(WholeV1Line) - 7) \o <<10>> \o GET
    /\ result.err = "ErrCantReadProtocolVersionAndCommand"

\* The input begins with the binary signature
IsV2 == Len(input) >= 12 /\ SubSeq(input, 1, 12) = <<13, 10, 13, 10, 0, 13, 10, 81, 85, 73, 84, 10>>

\* C25: after the binary signature, Read fails with
\* ErrCantReadProtocolVersionAndCommand when there is no 13th byte, and with
\* ErrUnsupportedProtocolVersionAndCommand when the 13th byte is neither 0x20
\* nor 0x21, whatever follows it; no byte after the 13th is consumed.
C25_V2Command ==
    (AfterRead /\ IsV2) =>
        /\ Len(input) = 12 =>
              result = [hdr |-> NilHeader, err |-> "ErrCantReadProtocolVersionAndCommand"]
        /\ (Len(input) >= 13 /\ input[13] \notin {32, 33}) =>
              /\ result = [hdr |-> NilHeader, err |-> "ErrUnsupportedProtocolVersionAndCommand"]
              /\ Remaining = Drop(input, 13)

C25_Witness ==
    /\ AfterRead
    /\ input = SIGV2 \o <<34, 17, 0, 12>> \o Fill(12, 1)
    /\ result.err = "ErrUnsupportedProtocolVersionAndCommand"
    /\ Len(Remaining) = 15

\* The input is a v2 header with the PROXY command
IsV2Proxy == IsV2 /\ Len(input) >= 13 /\ input[13] = 33

\* C26: for a PROXY command Read fails with
\* ErrCantReadAddressFamilyAndProtocol when there is no 14th byte, and with
\* ErrUnsupportedAddressFamilyAndProtocol when the 14th byte is none of 0x11,
\* 0x12, 0x21, 0x22, whatever length and body follow; a PROXY header that
\* parses has one of these four protocols.
C26_V2Family ==
    (AfterRead /\ IsV2Proxy) =>
        /\ Len(input) = 13 =>
              result = [hdr |-> NilHeader, err |-> "ErrCantReadAddressFamilyAndProtocol"]
        /\ (Len(input) >= 14 /\ input[14] \notin {17, 18, 33, 34}) =>
              result = [hdr |-> NilHeader, err |-> "ErrUnsupportedAddressFamilyAndProtocol"]
        /\ result.err = "nil" => result.hdr.TransportProtocol \in {17, 18, 33, 34}

C26_Witness ==
    /\ AfterRead
    /\ input = SIGV2 \o <<33, 49, 0, 36>> \o Fill(36, 1) \o GET
    /\ result.err = "ErrUnsupportedAddressFamilyAndProtocol"

\* The input is a v2 PROXY header with one of the four protocols
IsV2Supported == IsV2Proxy /\ Len(input) >= 14 /\ input[14] \in {17, 18, 33, 34}

\* The least length of the family of protocol byte f
FamilyMinimum(f) == IF f \in {17, 18} THEN 12 ELSE 36

\* The length the input declares
DeclaredLength == input[15] * 256 + input[16]

\* C27: after a supported family byte Read fails with ErrCantReadLength when
\* fewer than 2 bytes follow, and with ErrInvalidLength when the declared
\* big-endian length is below the family minimum (12 or 36), however many
\* bytes follow.
C27_V2Length ==
    (AfterRead /\ IsV2Supported) =>
        /\ Len(input) < 16 => result = [hdr |-> NilHeader, err |-> "ErrCantReadLength"]
        /\ (Len(input) >= 16 /\ DeclaredLength < FamilyMinimum(input[14])) =>
              result = [hdr |-> NilHeader, err |-> "ErrInvalidLength"]

C27_Witness ==
    /\ AfterRead
    /\ input = SIGV2 \o <<33, 33, 0, 12>> \o Fill(36, 1)
    /\ result.err = "ErrInvalidLength"

\* The source and destination the input carries after its length field
BlockAddrs(n) == <<SubSeq(input, 17, 16 + n), SubSeq(input, 17 + n, 16 + 2 * n)>>

\* C28: when the declared length L is at least the family minimum, Read
\* fails with ErrInvalidLength if fewer than L bytes follow the length field
\* and succeeds if at least L bytes follow it, with the addresses taken from
\* the whole fixed block.
C28_V2Body ==
    (AfterRead /\ IsV2Supported /\ Len(input) >= 16
     /\ DeclaredLength >= FamilyMinimum(input[14])) =>
        IF Len(input) - 16 < DeclaredLength
        THEN result = [hdr |-> NilHeader, err |-> "ErrInvalidLength"]
        ELSE /\ result.err = "nil"
             /\ result.hdr # NilHeader
             /\ <<result.hdr.SrcAddr, result.hdr.DstAddr>> =
                   BlockAddrs(IF input[14] \in {17, 18} THEN 4 ELSE 16)

\* ------------------------------------------------------------------------
\* Unknown version on write (checked under CodecSpec)
\* ------------------------------------------------------------------------

\* C29: WriteTo on a Header whose version is neither 1 nor 2 returns
\* ErrUnknownProxyProtocolVersion with byte count 0 and writes nothing; for
\* version 1 and version 2 it never returns that error.
C29_UnknownVersion ==
    (fixture.kind = "header" /\ phase # "header") =>
        IF fixture.h.Version \in {1, 2}
        THEN wres.err # "ErrUnknownProxyProtocolVersion"
        ELSE /\ wres = [n |-> 0, err |-> "ErrUnknownProxyProtocolVersion"]
             /\ input = <<>>
             /\ src = <<>>
             /\ phase = "failed"

C29_Witness ==
    /\ fixture.kind = "header"
    /\ fixture.h.Version = 3
    /\ fixture.h.Command = PROXY
    /\ fixture.h.TransportProtocol = TCPv4
    /\ phase = "failed"
    /\ wres.err = "ErrUnknownProxyProtocolVersion"

\* ------------------------------------------------------------------------
\* The placeholder address (checked under ConnSpec)
\* ------------------------------------------------------------------------

\* The empty net.IPAddr that Header.addr returns for "no valid address"
Placeholder == [type |-> "IPAddr", IP |-> <<>>, Port |-> 0]

\* The header read is a v2 LOCAL header, or its protocol is neither stream
\* nor datagram
YieldsPlaceholder(h) == h.Command = 32 \/ (h.TransportProtocol % 16) \notin {1, 2}

\* C30: on a trusted Conn whose parsed header yields the placeholder address,
\* LocalAddr and RemoteAddr return the underlying connection's addresses,
\* never the placeholder.
C30_PlaceholderFallback ==
    \A c \in Callers :
        (AccessorReturned(c) /\ ~useConnAddr /\ header # NilHeader /\ YieldsPlaceholder(header)) =>
            /\ ret[c].addr = SockAddr(op[c])
            /\ ret[c].addr # Placeholder

C30_Witness ==
    \E c \in Callers :
        /\ AccessorReturned(c) /\ op[c] = "RemoteAddr"
        /\ ~useConnAddr
        /\ header # NilHeader /\ header.Version = 2 /\ header.Command = 32
        /\ ret[c].addr = SockRemoteAddr

\* ------------------------------------------------------------------------
\* Payload after the header (checked under ResolveSpec)
\* ------------------------------------------------------------------------

\* The headers the scripted peers send, proxied and local, with their versions
\* and their bytes on the wire
SentHeaders ==
    {[version |-> h.Version, bytes |-> WriteTo(h).out] : h \in ProxiedHeaders \cup {LocalV2}}

\* The resolution parsed a header
HeaderParsed == outcome = "nil" /\ header # NilHeader

\* The resolution was run by a call of one of the address accessors
AccessorTriggered == \E c \in Callers : ran[c] /\ op[c] \in {"LocalAddr", "RemoteAddr"}

\* C31: after a successful header parse on a Conn, the bytes the Read calls
\* have returned, followed by the bytes still buffered and the bytes still in
\* flight, are exactly the bytes the peer sent after the last header byte, in
\* order: no header byte is delivered and no byte read ahead is lost, whether
\* a Read or an address accessor triggered the resolution.
C31_PayloadPreserved ==
    HeaderParsed =>
        \A h \in SentHeaders :
            HasPrefix(sent, h.bytes) =>
                delivered \o brBuf \o wire = Drop(sent, Len(h.bytes))

C31_Witness ==
    /\ HeaderParsed
    /\ header.Version = 1
    /\ AccessorTriggered
    /\ delivered = Ping
    /\ sent = WriteTo(header).out \o Ping
    /\ \E c \in Callers : ReadReturned(c) /\ ret[c].n = Len(Ping)

\* ------------------------------------------------------------------------
\* Forwarded calls (checked under ForwardSpec)
\* ------------------------------------------------------------------------

\* Nothing of the header resolution has happened: readHeader has not been
\* entered, no byte has left the socket and the peer's bytes are all unread
Unresolved ==
    /\ once = "fresh"
    /\ readHeaderCalls = 0
    /\ outcome = "pending"
    /\ header = NilHeader
    /\ brBuf = <<>>
    /\ wire = sent
    /\ delivered = <<>>

\* Some forwarded call can be made and return
CanForward ==
    ENABLED (Close \/ Write(Pong) \/ SetDeadline("caller") \/ SetReadDeadline("caller")
             \/ SetWriteDeadline("caller"))

\* The step is a forwarded call
ForwardStep == nforward' = nforward + 1

\* C32: Write, Close, SetDeadline, SetReadDeadline and SetWriteDeadline never
\* trigger the header resolution: a step of any of them returns the socket's
\* answer and leaves the resolution state, the buffered bytes and the unread
\* input as they were; while no Read, LocalAddr or RemoteAddr has been called
\* the header stays unresolved and no input byte is consumed; and the calls
\* can be made whatever the peer has or has not sent.
C32_ForwardedOnly ==
    /\ [](ncalls = 0 => Unresolved)
    /\ []((ncalls = 0 /\ nforward < MaxForwards) => CanForward)
    /\ [][ForwardStep =>
            /\ forwardRet' \in {"nil", "ErrNetClosing"}
            /\ UNCHANGED <<once, readHeaderCalls, outcome, header, brBuf, wire, sent,
                           delivered, pc, ret>>]_vars

C32_Witness ==
    /\ ncalls = 0
    /\ nforward = MaxForwards
    /\ script # <<>>
    /\ sent = <<>>
    /\ connClosed
    /\ written = Pong
    /\ Unresolved

\* ------------------------------------------------------------------------
\* Ownership of the buffered reader (checked under ResolveSpec)
\* ------------------------------------------------------------------------

\* Goroutine c is past p.once.Do in Conn.Read, about to use or using p.br
UsesReader(c) == pc[c] = "after" /\ op[c] = "Read"

\* The step replaces p.br
Replaces == br' # br

\* C33: p.br is replaced at most once, and only by the step that ends the
\* one-shot resolution, when an address accessor triggered it and it ended in
\* a decode error, with the connection closed; at that step no goroutine is
\* past p.once.Do in Read, so none is using the old reader; in every other
\* case every Read uses the reader NewConn created.
C33_ReaderOwnership ==
    /\ [](br \in {0, 1})
    /\ [](br = 1 => (once = "done" /\ connClosed /\ Fatal))
    /\ [][Replaces =>
            /\ br = 0
            /\ once = "running" /\ once' = "done"
            /\ connClosed'
            /\ \E c \in Callers : pc[c] = "header" /\ op[c] \in {"LocalAddr", "RemoteAddr"}
            /\ \A c \in Callers : ~UsesReader(c)]_vars

C33_Witness ==
    /\ br = 1
    /\ brBuf = <<>>
    /\ connClosed
    /\ Fatal
    /\ AccessorTriggered
    /\ \E c \in Callers : ReadReturned(c) /\ ~ran[c] /\ ret[c].err = "ErrNetClosing"

\* ------------------------------------------------------------------------
\* The goroutine ReadTimeout leaves behind (checked under TimeoutSpec)
\* ------------------------------------------------------------------------

\* The step is one of the goroutine started by ReadTimeout: its Read returns
WorkerStep == readCh' # readCh

\* C34 as claimed: once ReadTimeout has returned because the timer fired, the
\* goroutine it started performs no further operation on the buffered reader
\* and consumes none of its bytes.
C34_WorkerStops ==
    [][timer = "fired" => (~WorkerStep /\ (tPending' = tPending => tAvail' = tAvail))]_vars

\* ------------------------------------------------------------------------
\* The delimiter after the v1 signature (checked under CodecSpec)
\* ------------------------------------------------------------------------

\* The input begins with "PROXY" and something other than a space follows
SignatureRunsOn == Len(input) >= 6 /\ SubSeq(input, 1, 5) = SIGV1 /\ input[6] # 32

\* C35 as claimed: a v1 header is accepted only if "PROXY" is immediately
\* followed by a single space; input whose first token merely begins with
\* "PROXY" is not parsed as a header.
C35_SignatureDelimiter ==
    (AfterRead /\ SignatureRunsOn) => (result.hdr = NilHeader /\ result.err # "nil")

\* ------------------------------------------------------------------------
\* The caller's read deadline (checked under ForwardSpec)
\* ------------------------------------------------------------------------

\* C36 as claimed: a read deadline the caller installed before the first
\* Read, LocalAddr or RemoteAddr is still in force once the header resolution
\* has completed, whatever the header timeout and the outcome.
C36_DeadlineKept ==
    (once = "done" /\ earlyDeadline = "caller") => deadline = "caller"

\* ------------------------------------------------------------------------
\* What the trust decision changes (checked under ResolveSpec)
\* ------------------------------------------------------------------------

\* The header bytes consumed and the payload handed on, as the byte stream
\* alone decides them: a parsed header is stripped, and only it
StreamDecides ==
    /\ (outcome = "nil") = (header # NilHeader)
    /\ outcome = "nil" =>
         \A h \in SentHeaders :
             HasPrefix(sent, h.bytes) =>
                 /\ header.Version = h.version
                 /\ delivered \o brBuf \o wire = Drop(sent, Len(h.bytes))
    /\ (outcome = "ErrNoProxyProtocol" /\ headerWait.how # "timeout") =>
           delivered \o brBuf \o wire = sent

\* The errors of the Read calls and the closing of the connection, as the
\* outcome and the kind of the triggering call alone decide them
OutcomeDecides ==
    /\ connClosed = (br = 1)
    /\ \A c \in Callers :
         /\ (pc[c] = "after" /\ ran[c]) =>
                /\ callErr[c] = IF op[c] = "Read" THEN readHeaderErr(outcome) ELSE "nil"
                /\ op[c] # "Read" => (connClosed = (readHeaderErr(outcome) \notin {"nil", "io.EOF"}))
         /\ (ReadReturned(c) /\ ran[c] /\ readHeaderErr(outcome) # "nil") =>
                ret[c] = [n |-> 0, err |-> outcome, addr |-> NoAddr]

\* C37: the trust decision is consulted by the address accessors only.  The
\* header bytes consumed, the payload delivered, the errors of Read and the
\* closing of the underlying connection are decided by the byte stream, the
\* header timeout and the triggering call, by rules in which the trust flag
\* does not occur and which hold for trusted and untrusted connections
\* alike; on an untrusted connection the header is still parsed and stripped,
\* and an accessor that returns gives the socket's address.
C37_TrustOnlyAddresses ==
    /\ StreamDecides
    /\ OutcomeDecides
    /\ \A c \in Callers :
         (AccessorReturned(c) /\ header # NilHeader) =>
             ret[c].addr = IF useConnAddr \/ YieldsPlaceholder(header)
                           THEN SockAddr(op[c])
                           ELSE IF op[c] = "LocalAddr" THEN HeaderLocalAddr(header)
                           ELSE HeaderRemoteAddr(header)

C37_Witness ==
    /\ useConnAddr
    /\ HeaderParsed
    /\ header.Command = PROXY
    /\ delivered = Ping
    /\ sent = WriteTo(ProxiedV2).out \o Ping
    /\ \E c \in Callers : AccessorReturned(c) /\ op[c] = "RemoteAddr"
                          /\ ret[c].addr = SockRemoteAddr
                          /\ ret[c].addr # HeaderRemoteAddr(header)

\* ------------------------------------------------------------------------
\* Connections Accept gives up (checked under ListenerSpec)
\* ------------------------------------------------------------------------

\* C38 as claimed: when Accept fails because the trust function returned an
\* error, the raw connection has been closed before Accept returns: every
\* connection the underlying listener has handed over is either returned
\* wrapped in a Conn or closed.
C38_NoLeak ==
    (underlying # <<>> /\ LastUnderlying.err = "nil") =>
        \/ acceptRet.err = "nil" /\ acceptRet.conn.remote = LastUnderlying.peer
        \/ Len(underlying) \in rawClosed

\* ------------------------------------------------------------------------
\* Progress on short payloads (checked under ProgressSpec)
\* ------------------------------------------------------------------------

\* b cannot be the beginning of signature sig
Differs(b, sig) == \E i \in 1..Min(Len(b), Len(sig)) : b[i] # sig[i]

\* The bytes the peer has sent rule out both signatures
RuledOut == Differs(sent, SIGV1) /\ Differs(sent, SIGV2)

\* Goroutine c is inside a call of Read
InRead(c) == op[c] = "Read" /\ pc[c] \in {"once", "header", "after"}

\* C39 as claimed: on a Conn without header timeout, once the peer has sent
\* bytes that rule out both signatures and waits without closing, a pending
\* Read eventually returns those bytes.
C39_Progress ==
    (RuledOut /\ script = <<>> /\ delivered = <<>> /\ InRead(1))
        ~> (ReadReturned(1) /\ delivered # <<>> /\ HasPrefix(sent, delivered))


====
